---------------------------- MODULE Spec2Model ----------------------------
(***************************************************************************)
(* Loss assembly of the depth / ego-motion pipeline.                       *)
(*                                                                         *)
(*   Spec      TotalLoss.__call__ as a state machine: augment_data for the *)
(*             left (and, in stereo mode, the right) camera, then one step *)
(*             per configured loss term, then the weighted sum.            *)
(*   SpecCtor  construction of the photometric loss terms.                 *)
(*   SpecPhoto photometric_loss_l1 / photometric_loss_ssim on one example. *)
(*   SpecMS    PhotometricLossMultiScale.__call__ on a batch of pyramids.  *)
(*                                                                         *)
(* Dictionaries whose values the code never inspects (predictions,         *)
(* features) are modelled by their key sets; augm_data is a function from  *)
(* keys to a description of the value stored under the key.                *)
(***************************************************************************)
EXTENDS Integers, Sequences, FiniteSets, TLC

VARIABLES
    \* ---- TotalLoss (losses.py) ----
    predictions,    \* keys of the predictions dict
    features,       \* keys of the features dict
    calc_losses,    \* self.calc_losses: sequence of loss calculators
    loss_weights,   \* self.loss_weights: sequence of weights
    stereo,         \* self.stereo
    pc,             \* position inside TotalLoss.__call__
    augm_data,      \* local augm_data of __call__
    idx,            \* position of the for loop over zip(calc_losses, loss_weights)
    losses,         \* local losses of __call__
    total_loss,     \* local total_loss of __call__
    raised,         \* the exception that ended the call, if any
    work,           \* log of the calls made so far (augment_data, synthesis, warping, terms)
    \* ---- construction of photometric terms (losses.py) ----
    objects,        \* the term objects constructed so far
    ctor_call,      \* class and arguments of the last constructor call
    ctor_raised,    \* the exception the last constructor call raised, if any
    \* ---- photometric losses (loss_util.py) ----
    synt_target,    \* synthesized target [batch][numsrc][pixel][channel]
    orig_target,    \* original target [batch][pixel][channel]
    photo_out,      \* what the last photometric loss call computed
    \* ---- PhotometricLossMultiScale on a batch (losses.py) ----
    ms_synth,       \* synthesized / warped pyramid: per level [batch][numsrc][pixel][channel]
    ms_target,      \* target pyramid: per level [batch][pixel][channel]
    ms_out,         \* what the multi scale term returned
    \* ---- SmoothenessLossMultiScale (losses.py) ----
    sm_disp_ms,     \* predictions["disp_ms"]: per level a disparity map [row][col]
    sm_target_ms,   \* augm_data["target_ms"]: per level a target image [row][col][channel]
    sm_target_shape, \* height and width of augm_data["target"], the full resolution target
    sm_out,         \* what the smoothness term returned
    \* ---- StereoDepthLoss (losses.py) ----
    sd_features,    \* features: stereo_T_LR, intrinsic, intrinsic_R
    sd_predictions, \* predictions: depth_ms, depth_ms_R and the predicted poses
    sd_augm_data,   \* augm_data: target, target_R, target_ms, target_ms_R
    sd_photo,       \* value of self.photometric_loss per target pyramid and level
    sd_batch,       \* batch size
    sd_pc,          \* position inside StereoDepthLoss.__call__
    sd_read,        \* keys of predictions read so far
    sd_synth,       \* the SynthesizeMultiScale calls made so far, with their arguments
    sd_loss_left,   \* local loss_left
    sd_loss_right,  \* local loss_right
    sd_out,         \* what the term returned
    \* ---- StereoPoseLoss (losses.py) ----
    sp_features,    \* features["stereo_T_LR"]: per example the stereo transform
    sp_predictions, \* predictions: pose_LR and pose_RL, [batch][numsrc] twists
    sp_out,         \* what the term returned
    \* ---- L2Regularizer (losses.py) and ModelWrapper.weights_to_regularize ----
    l2_models,      \* names of the networks in ModelWrapper.models
    l2_trainable,   \* trainable_weights of the flow network: a list of tensors
    l2_weights,     \* self.weights of the regularizer
    l2_pc,          \* position: construction, call, done or error
    l2_raised,      \* the exception that ended the call, if any
    l2_out,         \* what the regularizer returned
    \* ---- SynthesizeBatchBasic (synthesize_base.py) ----
    si_src_shape,   \* shape of src_img_stacked: batch, stacked height, width
    si_depth_shape, \* shape of depth_sc: batch, height, width
    si_intrinsic,   \* intrinsic: per example a 3 x 3 matrix
    si_self,        \* the object's fields: batch, height, width, num_src, scale
    si_pc,          \* position inside SynthesizeBatchBasic.__call__
    si_out,         \* what scale_intrinsic returned
    \* ---- ModelWrapper.predict / StereoModelWrapper.predict (model_wrappers.py) ----
    mw_kind,        \* class of the wrapper
    mw_models,      \* self.models: the network names in dict order
    mw_levels,      \* levels of the pyramids the networks return
    mw_dataset,     \* dataset: the sequence of feature batches
    mw_step,        \* batches consumed so far
    mw_pc,          \* position inside predict
    mw_outputs,     \* local outputs: key -> list of per batch outputs
    mw_calls,       \* the predict_batch calls made so far: batch index and suffix
    mw_raised,      \* the exception that ended predict, if any
    mw_result,      \* what predict returned
    \* ---- StereoModelWrapper.__call__ / StereoPoseModelWrapper.__call__ (model_wrappers.py) ----
    wc_kind,        \* class of the wrapper
    wc_models,      \* self.models: the network names in dict order
    wc_levels,      \* levels of the pyramids the networks return
    wc_features,    \* local features of __call__
    wc_pc,          \* position inside __call__
    wc_predictions, \* local predictions of __call__
    wc_runs,        \* the network runs made so far: network and input
    wc_result,      \* what __call__ returned
    \* ---- ModelWrapper.load_weights (model_wrappers.py) ----
    lw_models,      \* self.models: the network names in dict order
    lw_suffix,      \* argument suffix
    lw_files,       \* the files of ckpt_dir_path
    lw_params,      \* where each network's parameters come from
    lw_idx,         \* position of the loop over self.models.keys()
    lw_pc,          \* position inside load_weights
    lw_log,         \* the networks whose weights were loaded, in order
    \* ---- two successive calls of TotalLoss.__call__ (losses.py) ----
    tl_calls,       \* calls of TotalLoss.__call__ that have ended
    tl_first,       \* how the first call ended and what it returned
    \* ---- image_reader / pose_reader (tfrecord_writer.py) ----
    rd_image,       \* cv2.imread(filename): the rows of the stacked snippet
    rd_poses,       \* np.loadtxt(filename): one pose row per frame
    rd_out,         \* what the reader returned
    \* ---- SynthesizeBatchBasic.cam2pixel (synthesize_base.py) ----
    cx_cam_coords,  \* cam_coords [batch][num_src][4][points], counted in units of 1e-10
    cx_intrinsic,   \* intrinsic [batch][3][3]
    cx_out,         \* what cam2pixel returned
    \* ---- SynthesizeMultiScale.__call__ and the pairing of PhotometricLossMultiScale ----
    py_src_shape,   \* shape of src_img_stacked
    py_depth_ms,    \* pred_depth_ms: per level the shape and the value of the depth map
    py_target_ms,   \* augm_data["target_ms"]: per level the shape and the value of the target
    py_pc,          \* position inside the two calls
    py_synth,       \* local synth_targets of SynthesizeMultiScale.__call__
    py_pairs,       \* the (synt_target, orig_target) pairs given to self.photometric_loss
    \* ---- TfrecordMaker.make (tfrecord_writer.py) ----
    tm_num_images,  \* len(data_feeders["image"])
    tm_pc,          \* position inside make
    tm_length,      \* config["length"] written to tfr_config.txt, 0 before it is written
    tm_fed,         \* calls of create_next_example_dict made so far
    tm_shards,      \* per shard file written: the first example in it and how many
    \* ---- CityScapesReader (city_reader.py) ----
    cr_stereo,      \* argument stereo of the constructor
    cr_split,       \* what is at split_path: a directory, a file, or nothing
    cr_entries,     \* the entries of split_path: directory or not, and the png files inside
    cr_pc,          \* position inside the constructor and list_drive_paths
    cr_self,        \* the reader constructed
    cr_todo,        \* city_names not yet visited by the loop
    cr_total,       \* local total_sequences
    cr_raised,      \* the exception raised, if any
    cr_result       \* what list_drive_paths returned

vars == <<predictions, features, calc_losses, loss_weights, stereo, pc, augm_data,
          idx, losses, total_loss, raised, work, objects, ctor_call, ctor_raised,
          synt_target, orig_target, photo_out, ms_synth, ms_target, ms_out,
          sm_disp_ms, sm_target_ms, sm_target_shape, sm_out,
          sd_features, sd_predictions, sd_augm_data, sd_photo, sd_batch, sd_pc,
          sd_read, sd_synth, sd_loss_left, sd_loss_right, sd_out,
          sp_features, sp_predictions, sp_out,
          l2_models, l2_trainable, l2_weights, l2_pc, l2_raised, l2_out,
          si_src_shape, si_depth_shape, si_intrinsic, si_self, si_pc, si_out,
          mw_kind, mw_models, mw_levels, mw_dataset, mw_step, mw_pc, mw_outputs, mw_calls, mw_raised, mw_result,
          wc_kind, wc_models, wc_levels, wc_features, wc_pc, wc_predictions, wc_runs, wc_result,
          lw_models, lw_suffix, lw_files, lw_params, lw_idx, lw_pc, lw_log,
          tl_calls, tl_first,
          rd_image, rd_poses, rd_out,
          cx_cam_coords, cx_intrinsic, cx_out,
          py_src_shape, py_depth_ms, py_target_ms, py_pc, py_synth, py_pairs,
          tm_num_images, tm_pc, tm_length, tm_fed, tm_shards,
          cr_stereo, cr_split, cr_entries, cr_pc, cr_self, cr_todo, cr_total, cr_raised, cr_result>>

totalVars == <<predictions, features, calc_losses, loss_weights, stereo, pc, augm_data,
               idx, losses, total_loss, raised, work>>
ctorVars  == <<objects, ctor_call, ctor_raised>>
photoVars == <<synt_target, orig_target, photo_out>>
msVars    == <<ms_synth, ms_target, ms_out>>
smoothVars == <<sm_disp_ms, sm_target_ms, sm_target_shape, sm_out>>
\* the state of the parts modelled after TotalLoss and the photometric losses
sdVars == <<sd_features, sd_predictions, sd_augm_data, sd_photo, sd_batch, sd_pc,
            sd_read, sd_synth, sd_loss_left, sd_loss_right, sd_out>>
spVars == <<sp_features, sp_predictions, sp_out>>
l2Vars == <<l2_models, l2_trainable, l2_weights, l2_pc, l2_raised, l2_out>>
siVars == <<si_src_shape, si_depth_shape, si_intrinsic, si_self, si_pc, si_out>>
mwVars == <<mw_kind, mw_models, mw_levels, mw_dataset, mw_step, mw_pc, mw_outputs, mw_calls, mw_raised, mw_result>>
wcVars == <<wc_kind, wc_models, wc_levels, wc_features, wc_pc, wc_predictions, wc_runs, wc_result>>
lwVars == <<lw_models, lw_suffix, lw_files, lw_params, lw_idx, lw_pc, lw_log>>
tlVars == <<tl_calls, tl_first>>
rdVars == <<rd_image, rd_poses, rd_out>>
cxVars == <<cx_cam_coords, cx_intrinsic, cx_out>>
pyVars == <<py_src_shape, py_depth_ms, py_target_ms, py_pc, py_synth, py_pairs>>
tmVars == <<tm_num_images, tm_pc, tm_length, tm_fed, tm_shards>>
crVars == <<cr_stereo, cr_split, cr_entries, cr_pc, cr_self, cr_todo, cr_total, cr_raised, cr_result>>
laterVars == <<smoothVars, sdVars, spVars, l2Vars, siVars, mwVars, wcVars, lwVars, tlVars, rdVars, cxVars, pyVars, tmVars, crVars>>
\* the later parts that a call of TotalLoss leaves alone
quietVars == <<smoothVars, sdVars, spVars, l2Vars, siVars, mwVars, wcVars, lwVars, rdVars, cxVars, pyVars, tmVars, crVars>>
firstVars == <<totalVars, ctorVars, photoVars, msVars>>

-----------------------------------------------------------------------------
(* Bounds of the model *)

\* longest configured list of loss terms
MaxTerms == 2
\* loss weights are drawn from 1..MaxWeight
MaxWeight == 2
\* the value a loss term computes is drawn from 0..MaxLoss
MaxLoss == 1
\* most term objects constructed in one run
MaxObjects == 2
\* colour channels take the values -MaxVal..MaxVal
MaxVal == 1
\* pixels of a full resolution image
NumPix == 2
\* source images per example
MaxSrc == 1
\* examples per batch
MaxBatch == 2
\* levels of a pyramid
MaxLevels == 2
\* the third camera coordinate takes the values -MaxDepth..MaxDepth (in units of 1e-10)
MaxDepth == 2
\* most source images of a dataset
MaxImages == 22001
\* sequence numbers of a city run over 0..MaxSeq
MaxSeq == 1
\* most frames (png files) of one sequence
MaxFrames == 2
\* rows of one frame of a stacked snippet image
MaxFrameRows == 2
\* rows and columns of the coarsest level of a disparity pyramid
LevelSide == 2
\* rows and columns of a disparity map or image whose values are not fixed to 0
FreeSide == 2
\* tensors in a network's list of trainable weights
MaxTensors == 2
\* batches in a dataset
MaxSteps == 2

(* Constants of the program *)

\* colour channels of an image
NumChannels == 3
\* the constant 1e-10 added to the divisor of cam2pixel, the unit in which the
\* camera coordinates of that part are counted
Epsilon == 1
\* make: one shard per ImagesPerShard images, ShardLimit shards at most
ImagesPerShard == 2000
ShardLimit == 10
\* frames of a snippet: opts.SNIPPET_LEN
SNIPPET_LEN == 5
\* c1 = 0.01 ** 2 and c2 = 0.03 ** 2, in units of 1 / SSIM_UNIT
SSIM_UNIT == 10000
SSIM_C1 == 1
SSIM_C2 == 9
\* ksize = [1, 3, 3]: width of the pooling window along height and width
KSIZE == 3

-----------------------------------------------------------------------------
(* Generic helpers *)

Min(a, b) == IF a < b THEN a ELSE b

RECURSIVE SumSeq(_)
SumSeq(s) == IF s = << >> THEN 0 ELSE Head(s) + SumSeq(Tail(s))

EmptyDict == [k \in {} |-> ""]

\* dict.update(other): the entries of other replace those of d under the same key
DictUpdate(d, other) ==
    [k \in DOMAIN d \cup DOMAIN other |-> IF k \in DOMAIN other THEN other[k] ELSE d[k]]

Suffixed(keys, suffix) == {k \o suffix : k \in keys}

-----------------------------------------------------------------------------
(* Inputs of TotalLoss.__call__ *)

Suffixes == {"", "_R"}

\* what one camera's networks can put into predictions (any subset of networks)
BasePredictionKeys == {"depth_ms", "disp_ms", "pose", "flow_ms"}

\* ModelWrapper: left keys only; StereoModelWrapper: the same keys with "_R" too;
\* StereoPoseModelWrapper: additionally pose_LR / pose_RL when a pose net exists
PredictionSets ==
    { p \in SUBSET (BasePredictionKeys \cup Suffixed(BasePredictionKeys, "_R")
                    \cup {"pose_LR", "pose_RL"}) :
        LET left == p \cap BasePredictionKeys
            right == p \cap Suffixed(BasePredictionKeys, "_R")
            rig == p \cap {"pose_LR", "pose_RL"}
        IN  /\ right \in {{}, Suffixed(left, "_R")}
            /\ rig \in {{}, {"pose_LR", "pose_RL"}}
            /\ rig # {} => ("pose" \in left /\ right # {}) }

MonoFeatures == {"image", "intrinsic"}
StereoFeatures == MonoFeatures \cup {"image_R", "intrinsic_R", "stereo_T_LR"}
FeatureSets == {MonoFeatures, StereoFeatures}

\* loss calculators: the class, its key_suffix, and the scalar its __call__
\* computes on this batch when every key it reads is present
SuffixedKinds == {"PhotometricLossMultiScale", "SmoothenessLossMultiScale",
                  "FlowWarpLossMultiScale"}
PlainKinds == {"StereoDepthLoss", "StereoPoseLoss", "L2Regularizer"}
LossValues == 0..MaxLoss
Calculators ==
    [kind : SuffixedKinds, key_suffix : Suffixes, value : LossValues] \cup
    [kind : PlainKinds, key_suffix : {""}, value : LossValues]
Weights == 1..MaxWeight

NoError == [type |-> "none", key |-> "", in |-> "", at |-> 0]
KeyError(key, in, at) == [type |-> "KeyError", key |-> key, in |-> in, at |-> at]

-----------------------------------------------------------------------------
(* Key lookups *)

Read(dict, key) == [dict |-> dict, key |-> key]

KeysOf(dict, augm) ==
    CASE dict = "predictions" -> predictions
      [] dict = "features" -> features
      [] dict = "augm_data" -> DOMAIN augm

Present(r, augm) == r.key \in KeysOf(r.dict, augm)

\* position of the first lookup of reads that raises KeyError, 0 when none does
FirstMissing(reads, augm) ==
    LET bad == {i \in 1..Len(reads) : ~Present(reads[i], augm)}
    IN  IF bad = {} THEN 0 ELSE CHOOSE i \in bad : \A j \in bad : i <= j

-----------------------------------------------------------------------------
(* TotalLoss.augment_data *)

AugmValue(what, suffix) == [what |-> what, suffix |-> suffix]

\* the four lookups made before anything is computed
AugmentReads(suffix) ==
    << Read("predictions", "depth_ms" \o suffix), Read("predictions", "pose" \o suffix),
       Read("features", "image" \o suffix), Read("features", "intrinsic" \o suffix) >>

\* the entries written under the keys carrying the call's suffix
AugmentEntries(suffix, whats) ==
    [k \in Suffixed(whats, suffix) |->
        AugmValue(CHOOSE w \in whats : w \o suffix = k, suffix)]

\* variant: the synthesis runs as soon as depth_ms is read, before the other lookups
augment_data_synthesize_first(suffix) ==
    LET reads == AugmentReads(suffix)
        m == FirstMissing(reads, EmptyDict)
        flow == ("flow_ms" \o suffix) \in predictions
        whats == {"source", "target", "target_ms", "synth_target_ms"} \cup
                 (IF flow THEN {"flow_target_ms", "warped_target_ms"} ELSE {})
    IN  IF m # 0
        THEN [raised |-> KeyError(reads[m].key, "augment_data", 0),
              augm |-> EmptyDict,
              work |-> IF m > 1 THEN << <<"synthesize", suffix>> >> ELSE << >>]
        ELSE [raised |-> NoError,
              augm |-> AugmentEntries(suffix, whats),
              work |-> << <<"synthesize", suffix>> >> \o
                       (IF flow THEN << <<"flow_warp", suffix>> >> ELSE << >>)]

\* variant: the suffix is left off the keys written
augment_data_unsuffixed(suffix) ==
    LET reads == AugmentReads(suffix)
        m == FirstMissing(reads, EmptyDict)
        flow == ("flow_ms" \o suffix) \in predictions
        whats == {"source", "target", "target_ms", "synth_target_ms"} \cup
                 (IF flow THEN {"flow_target_ms", "warped_target_ms"} ELSE {})
    IN  IF m # 0
        THEN [raised |-> KeyError(reads[m].key, "augment_data", 0),
              augm |-> EmptyDict, work |-> << >>]
        ELSE [raised |-> NoError,
              augm |-> [k \in whats |-> AugmValue(k, suffix)],
              work |-> << <<"synthesize", suffix>> >> \o
                       (IF flow THEN << <<"flow_warp", suffix>> >> ELSE << >>)]

\* variant: the flow warper runs whether or not flow_ms is predicted
augment_data_always_warps(suffix) ==
    LET reads == AugmentReads(suffix)
        m == FirstMissing(reads, EmptyDict)
        whats == {"source", "target", "target_ms", "synth_target_ms",
                  "flow_target_ms", "warped_target_ms"}
    IN  IF m # 0
        THEN [raised |-> KeyError(reads[m].key, "augment_data", 0),
              augm |-> EmptyDict, work |-> << >>]
        ELSE [raised |-> NoError,
              augm |-> AugmentEntries(suffix, whats),
              work |-> << <<"synthesize", suffix>>, <<"flow_warp", suffix>> >>]

\* augment_data(features, predictions, suffix): the exception raised, the dict
\* returned and the synthesis / warping calls made
augment_data(suffix) ==
    LET reads == AugmentReads(suffix)
        m == FirstMissing(reads, EmptyDict)
        flow == ("flow_ms" \o suffix) \in predictions
        whats == {"source", "target", "target_ms", "synth_target_ms"} \cup
                 (IF flow THEN {"flow_target_ms", "warped_target_ms"} ELSE {})
    IN  IF m # 0
        THEN [raised |-> KeyError(reads[m].key, "augment_data", 0),
              augm |-> EmptyDict, work |-> << >>]
        ELSE [raised |-> NoError,
              augm |-> AugmentEntries(suffix, whats),
              work |-> << <<"synthesize", suffix>> >> \o
                       (IF flow THEN << <<"flow_warp", suffix>> >> ELSE << >>)]

-----------------------------------------------------------------------------
(* The loss terms, as TotalLoss sees them: each __call__ is a sequence of  *)
(* phases, a phase being the key lookups made and the work done after them *)

Phase(reads, does) == [reads |-> reads, does |-> does]

PhotometricLossMultiScale_phases(sfx) ==
    << Phase(<< Read("augm_data", "target_ms" \o sfx),
                Read("augm_data", "synth_target_ms" \o sfx) >>, << >>) >>

SmoothenessLossMultiScale_phases(sfx) ==
    << Phase(<< Read("predictions", "disp_ms" \o sfx),
                Read("augm_data", "target_ms" \o sfx) >>, << >>) >>

\* the left image is synthesized (stereo_synthesize_loss) before the keys of
\* the right side are looked up
StereoDepthLoss_phases ==
    << Phase(<< Read("augm_data", "target_R"), Read("augm_data", "target_ms"),
                Read("predictions", "depth_ms"), Read("features", "stereo_T_LR"),
                Read("features", "intrinsic") >>,
             << <<"synthesize", "stereo">> >>),
       Phase(<< Read("augm_data", "target"), Read("augm_data", "target_ms_R"),
                Read("predictions", "depth_ms_R"), Read("features", "stereo_T_LR"),
                Read("features", "intrinsic_R") >>,
             << <<"synthesize", "stereo_R">> >>) >>

StereoPoseLoss_phases ==
    << Phase(<< Read("predictions", "pose_LR"), Read("predictions", "pose_RL"),
                Read("features", "stereo_T_LR") >>, << >>) >>

FlowWarpLossMultiScale_phases(sfx) ==
    << Phase(<< Read("augm_data", "flow_target_ms" \o sfx),
                Read("augm_data", "warped_target_ms" \o sfx) >>, << >>) >>

L2Regularizer_phases == << Phase(<< >>, << >>) >>

TermPhases(term) ==
    CASE term.kind = "PhotometricLossMultiScale" ->
            PhotometricLossMultiScale_phases(term.key_suffix)
      [] term.kind = "SmoothenessLossMultiScale" ->
            SmoothenessLossMultiScale_phases(term.key_suffix)
      [] term.kind = "StereoDepthLoss" -> StereoDepthLoss_phases
      [] term.kind = "StereoPoseLoss" -> StereoPoseLoss_phases
      [] term.kind = "FlowWarpLossMultiScale" ->
            FlowWarpLossMultiScale_phases(term.key_suffix)
      [] term.kind = "L2Regularizer" -> L2Regularizer_phases

\* every lookup a term makes
TermReads(term) ==
    LET ph == TermPhases(term)
    IN  UNION {{ph[i].reads[j] : j \in 1..Len(ph[i].reads)} : i \in 1..Len(ph)}

TermName(term) == term.kind \o term.key_suffix

RECURSIVE RunPhases(_, _, _, _)
RunPhases(phases, augm, done, at) ==
    IF phases = << >>
    THEN [raised |-> NoError, work |-> done]
    ELSE LET ph == Head(phases)
             m == FirstMissing(ph.reads, augm)
         IN  IF m # 0
             THEN [raised |-> KeyError(ph.reads[m].key, "term", at), work |-> done]
             ELSE RunPhases(Tail(phases), augm, done \o ph.does, at)

\* variant: a term whose key is absent contributes zero instead of failing
calc_loss_skip_missing(term, augm, at) ==
    LET r == RunPhases(TermPhases(term), augm, << >>, at)
    IN  IF r.raised.type # "none"
        THEN [raised |-> NoError, value |-> 0, work |-> r.work]
        ELSE [raised |-> NoError, value |-> term.value,
              work |-> r.work \o << <<"term", TermName(term)>> >>]

\* calc_loss(features, predictions, augm_data) for the term at position `at`
calc_loss(term, augm, at) ==
    LET r == RunPhases(TermPhases(term), augm, << >>, at)
    IN  IF r.raised.type # "none"
        THEN [raised |-> r.raised, value |-> 0, work |-> r.work]
        ELSE [raised |-> NoError, value |-> term.value,
              work |-> r.work \o << <<"term", TermName(term)>> >>]

-----------------------------------------------------------------------------
(* TotalLoss.__call__ *)

\* zip(self.calc_losses, self.loss_weights) stops at the shorter list
zip_len(a, b) == Min(Len(a), Len(b))

\* variant: the new entry is put in front
prepend_loss(ls, loss, weight) == <<loss * weight>> \o ls

\* losses.append(loss * weight)
append_loss(ls, loss, weight) == Append(ls, loss * weight)

\* variant: only the last weighted loss is returned
last_loss_only(ls) == IF ls = << >> THEN 0 ELSE ls[Len(ls)]

\* tf.reduce_sum over the stacked losses
reduce_sum(ls) == SumSeq(ls)

NoCall == [cls |-> "", method |-> "", key_suffix |-> ""]
NoCtorError == [type |-> "none", msg |-> ""]
NoOutput == [fn |-> "none"]
NoResult == [ended |-> "none", raised |-> NoError, total_loss |-> 0, losses |-> << >>]

ctorIdle == objects = {} /\ ctor_call = NoCall /\ ctor_raised = NoCtorError
photoIdle == synt_target = << >> /\ orig_target = << >> /\ photo_out = NoOutput
msIdle == ms_synth = << >> /\ ms_target = << >> /\ ms_out = NoOutput
smoothIdle ==
    sm_disp_ms = << >> /\ sm_target_ms = << >> /\ sm_target_shape = << >> /\ sm_out = NoOutput
sdIdle ==
    /\ sd_features = << >> /\ sd_predictions = << >> /\ sd_augm_data = << >>
    /\ sd_photo = << >> /\ sd_batch = 0 /\ sd_pc = "idle" /\ sd_read = {}
    /\ sd_synth = << >> /\ sd_loss_left = << >> /\ sd_loss_right = << >>
    /\ sd_out = NoOutput
spIdle == sp_features = << >> /\ sp_predictions = << >> /\ sp_out = NoOutput
l2Idle ==
    /\ l2_models = {} /\ l2_trainable = << >> /\ l2_weights = << >> /\ l2_pc = "idle"
    /\ l2_raised = "none" /\ l2_out = NoOutput
siIdle ==
    /\ si_src_shape = << >> /\ si_depth_shape = << >> /\ si_intrinsic = << >>
    /\ si_self = << >> /\ si_pc = "idle" /\ si_out = NoOutput
mwIdle ==
    /\ mw_kind = "" /\ mw_models = << >> /\ mw_levels = 0 /\ mw_dataset = << >>
    /\ mw_step = 0 /\ mw_pc = "idle" /\ mw_outputs = << >> /\ mw_calls = << >>
    /\ mw_raised = "none" /\ mw_result = << >>
wcIdle ==
    /\ wc_kind = "" /\ wc_models = << >> /\ wc_levels = 0 /\ wc_features = << >>
    /\ wc_pc = "idle" /\ wc_predictions = << >> /\ wc_runs = << >> /\ wc_result = << >>
lwIdle ==
    /\ lw_models = << >> /\ lw_suffix = "" /\ lw_files = {} /\ lw_params = << >>
    /\ lw_idx = 0 /\ lw_pc = "idle" /\ lw_log = << >>
tlIdle ==
    tl_calls = 0 /\ tl_first = NoResult
rdIdle ==
    rd_image = << >> /\ rd_poses = << >> /\ rd_out = NoOutput
cxIdle ==
    cx_cam_coords = << >> /\ cx_intrinsic = << >> /\ cx_out = NoOutput
pyIdle ==
    /\ py_src_shape = << >> /\ py_depth_ms = << >> /\ py_target_ms = << >>
    /\ py_pc = "idle" /\ py_synth = << >> /\ py_pairs = << >>
tmIdle ==
    /\ tm_num_images = 0 /\ tm_pc = "idle" /\ tm_length = 0 /\ tm_fed = 0 /\ tm_shards = << >>
crIdle ==
    /\ cr_stereo = FALSE /\ cr_split = "" /\ cr_entries = << >> /\ cr_pc = "idle"
    /\ cr_self = << >> /\ cr_todo = {} /\ cr_total = << >> /\ cr_raised = "none" /\ cr_result = << >>
laterIdle == smoothIdle /\ sdIdle /\ spIdle /\ l2Idle /\ siIdle /\ mwIdle /\ wcIdle /\ lwIdle /\ tlIdle /\ rdIdle /\ cxIdle /\ pyIdle /\ tmIdle /\ crIdle
totalIdle ==
    /\ predictions = {} /\ features = {} /\ calc_losses = << >>
    /\ loss_weights = << >> /\ stereo = FALSE /\ pc = "idle"
    /\ augm_data = EmptyDict /\ idx = 1 /\ losses = << >> /\ total_loss = 0
    /\ raised = NoError /\ work = << >>
firstIdle == totalIdle /\ ctorIdle /\ photoIdle /\ msIdle

Init ==
    /\ predictions \in PredictionSets
    /\ features \in FeatureSets
    /\ \E n \in 1..MaxTerms :
          /\ calc_losses \in [1..n -> Calculators]
          /\ loss_weights \in [1..n -> Weights]
    /\ stereo \in BOOLEAN
    /\ pc = "start"
    /\ augm_data = EmptyDict
    /\ idx = 1
    /\ losses = << >>
    /\ total_loss = 0
    /\ raised = NoError
    /\ work = << >>
    /\ ctorIdle /\ photoIdle /\ msIdle /\ laterIdle

\* line 35: augm_data = self.augment_data(features, predictions)
AugmentLeft ==
    /\ pc = "start"
    /\ LET r == augment_data("")
       IN  /\ work' = work \o << <<"augment_data", "">> >> \o r.work
           /\ IF r.raised.type # "none"
              THEN /\ pc' = "error"
                   /\ raised' = r.raised
                   /\ UNCHANGED augm_data
              ELSE /\ pc' = IF stereo THEN "augment_R" ELSE "loop"
                   /\ augm_data' = r.augm
                   /\ UNCHANGED raised
    /\ UNCHANGED <<predictions, features, calc_losses, loss_weights, stereo,
                   idx, losses, total_loss>>
    /\ UNCHANGED <<ctorVars, photoVars, msVars, laterVars>>

\* lines 36-38: the right camera's call and the merge
AugmentRight ==
    /\ pc = "augment_R"
    /\ LET r == augment_data("_R")
       IN  /\ work' = work \o << <<"augment_data", "_R">> >> \o r.work
           /\ IF r.raised.type # "none"
              THEN /\ pc' = "error"
                   /\ raised' = r.raised
                   /\ UNCHANGED augm_data
              ELSE /\ pc' = "loop"
                   /\ augm_data' = DictUpdate(augm_data, r.augm)
                   /\ UNCHANGED raised
    /\ UNCHANGED <<predictions, features, calc_losses, loss_weights, stereo,
                   idx, losses, total_loss>>
    /\ UNCHANGED <<ctorVars, photoVars, msVars, laterVars>>

\* lines 41-43: one iteration of the loop over the configured terms
EvalTerm ==
    /\ pc = "loop"
    /\ idx <= zip_len(calc_losses, loss_weights)
    /\ LET r == calc_loss(calc_losses[idx], augm_data, idx)
       IN  /\ work' = work \o r.work
           /\ IF r.raised.type # "none"
              THEN /\ pc' = "error"
                   /\ raised' = r.raised
                   /\ UNCHANGED <<idx, losses>>
              ELSE /\ losses' = append_loss(losses, r.value, loss_weights[idx])
                   /\ idx' = idx + 1
                   /\ UNCHANGED <<pc, raised>>
    /\ UNCHANGED <<predictions, features, calc_losses, loss_weights, stereo,
                   augm_data, total_loss>>
    /\ UNCHANGED <<ctorVars, photoVars, msVars, laterVars>>

\* lines 45-47: stack, sum and return
Finish ==
    /\ pc = "loop"
    /\ idx > zip_len(calc_losses, loss_weights)
    /\ total_loss' = reduce_sum(losses)
    /\ pc' = "done"
    /\ UNCHANGED <<predictions, features, calc_losses, loss_weights, stereo,
                   augm_data, idx, losses, raised, work>>
    /\ UNCHANGED <<ctorVars, photoVars, msVars, laterVars>>

Next == AugmentLeft \/ AugmentRight \/ EvalTerm \/ Finish

Spec == Init /\ [][Next]_vars

-----------------------------------------------------------------------------
(* Properties of TotalLoss.__call__ (checked under Spec) *)

NumTerms == Len(calc_losses)

RECURSIVE WeightedSum(_)
WeightedSum(n) ==
    IF n = 0 THEN 0
    ELSE calc_losses[n].value * loss_weights[n] + WeightedSum(n - 1)

\* the suffixes of the augment_data calls made so far, in order
AugmentCalls ==
    LET calls == SelectSeq(work, LAMBDA e : e[1] = "augment_data")
    IN  [i \in 1..Len(calls) |-> calls[i][2]]

\* the events of work of the given kinds
WorkOf(kinds) == SelectSeq(work, LAMBDA e : e[1] \in kinds)

NumericWork == {"synthesize", "flow_warp", "term"}

MissingKey(term, augm) == \E r \in TermReads(term) : ~Present(r, augm)

\* C1: the total loss returned is the sum over all configured terms of
\* (term value * configured weight).
C1_TotalIsWeightedSum ==
    pc = "done" => total_loss = WeightedSum(NumTerms)

C1_Witness ==
    /\ pc = "done" /\ NumTerms = 2
    /\ loss_weights = <<1, 2>>
    /\ calc_losses[1].value = 1 /\ calc_losses[2].value = 1
    /\ total_loss = 3

\* C2: the per-term sequence returned has exactly one entry per configured
\* term, entry i being the weighted loss of the i-th configured term.
C2_OneEntryPerTermInOrder ==
    pc = "done" =>
        /\ Len(losses) = NumTerms
        /\ \A i \in 1..NumTerms :
              losses[i] = calc_losses[i].value * loss_weights[i]

C2_Witness ==
    /\ pc = "done" /\ NumTerms = 2
    /\ losses = <<1, 2>>
    /\ calc_losses[1].kind # calc_losses[2].kind

\* C3: when a configured term reads a key that is absent from predictions,
\* features or the augmented data, the call ends in a KeyError on an absent
\* key and returns nothing: the loop never steps past such a term, so the term
\* is neither skipped nor counted as zero, and a call that returns has found
\* every key of every configured term.
C3_MissingKeyFails ==
    /\ pc \in {"loop", "done"} =>
          /\ Len(losses) = idx - 1
          /\ \A i \in 1..NumTerms :
                MissingKey(calc_losses[i], augm_data) => idx <= i
    /\ pc = "done" =>
          /\ idx = NumTerms + 1
          /\ \A i \in 1..NumTerms : ~MissingKey(calc_losses[i], augm_data)
    /\ pc = "error" =>
          /\ raised.type = "KeyError"
          /\ raised.in = "term" =>
                /\ idx = raised.at
                /\ \E r \in TermReads(calc_losses[idx]) :
                      r.key = raised.key /\ ~Present(r, augm_data)
          /\ raised.in = "augment_data" =>
                raised.key \notin (predictions \cup features)

C3_Witness ==
    /\ pc = "error" /\ raised.in = "term" /\ raised.key = "disp_ms"
    /\ calc_losses[idx].kind = "SmoothenessLossMultiScale"
    /\ losses = << >>

\* the prediction keys whose data a term consumes, directly or through the
\* augmented data it reads
TermPredictionNeeds(term) ==
    CASE term.kind = "PhotometricLossMultiScale" ->
            {"depth_ms" \o term.key_suffix, "pose" \o term.key_suffix}
      [] term.kind = "SmoothenessLossMultiScale" -> {"disp_ms" \o term.key_suffix}
      [] term.kind = "FlowWarpLossMultiScale" -> {"flow_ms" \o term.key_suffix}
      [] term.kind = "StereoDepthLoss" -> {"depth_ms", "depth_ms_R"}
      [] term.kind = "StereoPoseLoss" -> {"pose_LR", "pose_RL"}
      [] term.kind = "L2Regularizer" -> {}

\* a mono call whose configured terms need only prediction keys that are present
C4_Applies ==
    /\ predictions # {}
    /\ ~stereo
    /\ MonoFeatures \subseteq features
    /\ \A i \in 1..NumTerms :
          /\ calc_losses[i].kind \in SuffixedKinds \cup {"L2Regularizer"}
          /\ calc_losses[i].key_suffix = ""
          /\ TermPredictionNeeds(calc_losses[i]) \subseteq predictions

\* C4: any subset of terms may be active: for every non-empty set of present
\* prediction keys and every term list that needs only the present keys
\* (e.g. only flow_ms with only the flow-warp loss), the call completes.
C4_AnySubsetCompletes ==
    C4_Applies => pc # "error"

\* C5 as stated: at the moment of the missing-key error no view synthesis,
\* flow warping or loss-term evaluation has been performed.
C5_NoWorkBeforeKeyError ==
    pc = "error" => WorkOf(NumericWork) = << >>

\* C5 as amended: the missing-key error is raised before any later term is
\* evaluated and before the total is formed. A key that augment_data itself
\* reads is missed before that call synthesizes or warps anything; a key
\* missed by the term at position k is missed after the view synthesis of
\* augment_data and after exactly the k-1 terms before it were evaluated.
C5_KeyErrorStopsLaterWork ==
    pc = "error" =>
        /\ total_loss = 0
        /\ raised.in = "augment_data" =>
              /\ WorkOf({"term"}) = << >>
              /\ work[Len(work)][1] = "augment_data"
              /\ Len(WorkOf({"synthesize"})) = Len(AugmentCalls) - 1
        /\ raised.in = "term" =>
              /\ Len(WorkOf({"term"})) = raised.at - 1
              /\ Len(losses) = raised.at - 1
              /\ <<"synthesize", "">> \in {work[i] : i \in 1..Len(work)}

C5_Witness ==
    /\ pc = "error" /\ raised.in = "term" /\ raised.at = 2
    /\ Len(WorkOf({"term"})) = 1
    /\ Len(WorkOf({"synthesize"})) >= 1

\* the keys one augment_data call writes, without the suffix
AugmentWhats(suffix) ==
    {"source", "target", "target_ms", "synth_target_ms"} \cup
    (IF ("flow_ms" \o suffix) \in predictions
     THEN {"flow_target_ms", "warped_target_ms"} ELSE {})

RightKeys ==
    Suffixed({"source", "target", "target_ms", "synth_target_ms",
              "flow_target_ms", "warped_target_ms"}, "_R")

-----------------------------------------------------------------------------
(* Construction of the photometric loss terms (SpecCtor) *)

MethodNames == {"L1", "SSIM", "L2", "l1", "ssim", ""}

WrongInputException(msg) == [type |-> "WrongInputException", msg |-> msg]

\* variant: an unknown name falls back to the L1 loss
PhotometricLoss_init_default_l1(cls, method, key_suffix) ==
    IF method = "SSIM"
    THEN [raised |-> NoCtorError,
          obj |-> [cls |-> cls, photometric_loss |-> "photometric_loss_ssim",
                   key_suffix |-> key_suffix]]
    ELSE [raised |-> NoCtorError,
          obj |-> [cls |-> cls, photometric_loss |-> "photometric_loss_l1",
                   key_suffix |-> key_suffix]]

\* PhotometricLoss.__init__(self, method, key_suffix) on an object of class cls
PhotometricLoss_init(cls, method, key_suffix) ==
    IF method = "L1"
    THEN [raised |-> NoCtorError,
          obj |-> [cls |-> cls, photometric_loss |-> "photometric_loss_l1",
                   key_suffix |-> key_suffix]]
    ELSE IF method = "SSIM"
    THEN [raised |-> NoCtorError,
          obj |-> [cls |-> cls, photometric_loss |-> "photometric_loss_ssim",
                   key_suffix |-> key_suffix]]
    ELSE [raised |-> WrongInputException("Wrong photometric loss name: " \o method),
          obj |-> NoCall]

\* super().__init__(method, key_suffix)
PhotometricLossMultiScale_init(method, key_suffix) ==
    PhotometricLoss_init("PhotometricLossMultiScale", method, key_suffix)

FlowWarpLossMultiScale_init(method, key_suffix) ==
    PhotometricLoss_init("FlowWarpLossMultiScale", method, key_suffix)

\* super().__init__(method): key_suffix takes its default
StereoDepthLoss_init(method) ==
    PhotometricLoss_init("StereoDepthLoss", method, "")

PhotometricClasses == {"PhotometricLoss", "PhotometricLossMultiScale",
                       "StereoDepthLoss", "FlowWarpLossMultiScale"}

ConstructorCalls ==
    [cls : PhotometricClasses \ {"StereoDepthLoss"}, method : MethodNames,
     key_suffix : Suffixes] \cup
    [cls : {"StereoDepthLoss"}, method : MethodNames, key_suffix : {""}]

Construct(call) ==
    CASE call.cls = "PhotometricLoss" ->
            PhotometricLoss_init("PhotometricLoss", call.method, call.key_suffix)
      [] call.cls = "PhotometricLossMultiScale" ->
            PhotometricLossMultiScale_init(call.method, call.key_suffix)
      [] call.cls = "FlowWarpLossMultiScale" ->
            FlowWarpLossMultiScale_init(call.method, call.key_suffix)
      [] call.cls = "StereoDepthLoss" -> StereoDepthLoss_init(call.method)

InitCtor ==
    /\ totalIdle /\ ctorIdle /\ photoIdle /\ msIdle /\ laterIdle

\* one constructor call: the object exists only if __init__ returns; objects
\* keeps every object made together with the call that made it
ConstructTerm ==
    /\ Cardinality(objects) < MaxObjects
    /\ \E call \in ConstructorCalls :
          LET r == Construct(call)
          IN  /\ ctor_call' = call
              /\ ctor_raised' = r.raised
              /\ objects' = IF r.raised.type = "none"
                            THEN objects \cup {[call |-> call, obj |-> r.obj]}
                            ELSE objects
    /\ UNCHANGED <<totalVars, photoVars, msVars, laterVars>>

NextCtor == ConstructTerm

SpecCtor == InitCtor /\ [][NextCtor]_vars

SelectedLoss(method) ==
    IF method = "L1" THEN "photometric_loss_l1" ELSE "photometric_loss_ssim"

\* C6: a method name other than exactly "L1" or "SSIM" raises
\* WrongInputException in the constructor, so that no object made with such a
\* name exists; "L1" selects photometric_loss_l1 and "SSIM" selects
\* photometric_loss_ssim.
C6_UnknownMethodRaises ==
    /\ \A e \in objects :
          /\ e.call.method \in {"L1", "SSIM"}
          /\ e.obj.cls = e.call.cls
          /\ e.obj.key_suffix = e.call.key_suffix
          /\ e.obj.photometric_loss = SelectedLoss(e.call.method)
    /\ ctor_call # NoCall =>
          IF ctor_call.method \in {"L1", "SSIM"}
          THEN /\ ctor_raised.type = "none"
               /\ \E e \in objects : e.call = ctor_call
          ELSE /\ ctor_raised =
                    WrongInputException("Wrong photometric loss name: " \o ctor_call.method)
               /\ \A e \in objects : e.call # ctor_call

C6_Witness ==
    /\ ctor_call.cls = "StereoDepthLoss" /\ ctor_call.method = "ssim"
    /\ ctor_raised.type = "WrongInputException"
    /\ \E e \in objects : e.obj.photometric_loss = "photometric_loss_ssim"

-----------------------------------------------------------------------------
(* Photometric losses of loss_util.py (SpecPhoto).                         *)
(* A tensor [batch, numsrc, height, width, 3] is a function               *)
(* [batch][numsrc][pixel][channel]; the images are single rows of pixels.  *)

Abs(x) == IF x < 0 THEN -x ELSE x

Rat(n, d) == [num |-> n, den |-> d]
RatAdd(a, b) == Rat(a.num * b.den + b.num * a.den, a.den * b.den)
RatEq(a, b) == a.num * b.den = b.num * a.den

RECURSIVE RatSum(_)
RatSum(s) == IF s = << >> THEN Rat(0, 1) ELSE RatAdd(Head(s), RatSum(Tail(s)))

Channels == 1..NumChannels
Pixels == [Channels -> (-MaxVal)..MaxVal]
\* the original target of the photometric model: channels in 0..MaxVal
TargetPixels == [Channels -> 0..MaxVal]

\* synt_target_gray = tf.reduce_mean(synt_target, axis=-1); tf.equal(.., 0):
\* the mean of the channels is zero exactly when their sum is
error_mask(pixel) == SumSeq(pixel) = 0

\* sum of all entries of one example's error [numsrc][pixel][channel]
ExampleSum(err) ==
    SumSeq([s \in 1..Len(err) |->
              SumSeq([p \in 1..Len(err[s]) |-> SumSeq(err[s][p])])])

\* number of entries of one example's tensor [numsrc][pixel][channel]
ExampleSize(t) == Len(t) * Len(t[1]) * NumChannels

\* photometric_loss_l1(synt_target, orig_target, reduce=True): the mask, the
\* masked error and the loss per example
photometric_loss_l1(synt, orig) ==
    LET mask == [b \in 1..Len(synt) |-> [s \in 1..Len(synt[b]) |->
                    [p \in 1..Len(synt[b][s]) |-> error_mask(synt[b][s][p])]]]
        photo_error ==
            [b \in 1..Len(synt) |-> [s \in 1..Len(synt[b]) |->
                [p \in 1..Len(synt[b][s]) |-> [c \in Channels |->
                    IF mask[b][s][p] THEN 0
                    ELSE Abs(synt[b][s][p][c] - orig[b][p][c])]]]]
    IN  [fn |-> "photometric_loss_l1", mask |-> mask, error |-> photo_error,
         loss |-> [b \in 1..Len(synt) |->
                     Rat(ExampleSum(photo_error[b]), ExampleSize(photo_error[b]))]]

\* the pixels under the 3-wide pooling window centred on pixel p of a row of
\* n pixels (padding "SAME": the average is over the pixels inside the image)
Window(p, n) == {q \in 1..n : Abs(q - p) <= (KSIZE - 1) \div 2}

RECURSIVE SumOver(_, _)
SumOver(S, f) ==
    IF S = {} THEN 0
    ELSE LET q == CHOOSE q \in S : TRUE IN f[q] + SumOver(S \ {q}, f)

\* ssim_n / ssim_d at one entry, as the two quotients n1/d1 and n2/d2 of
\* (2 mu_x mu_y + c1) / (mu_x^2 + mu_y^2 + c1) and
\* (2 sigma_xy + c2) / (sigma_x + sigma_y + c2), both scaled by SSIM_UNIT * n^2
SsimEntry(x, y, p, c) ==
    LET W == Window(p, Len(x))
        n == Cardinality(W)
        Sx == SumOver(W, [q \in W |-> x[q][c]])
        Sy == SumOver(W, [q \in W |-> y[q][c]])
        Sxx == SumOver(W, [q \in W |-> x[q][c] * x[q][c]])
        Syy == SumOver(W, [q \in W |-> y[q][c] * y[q][c]])
        Sxy == SumOver(W, [q \in W |-> x[q][c] * y[q][c]])
    IN  [n1 |-> 2 * SSIM_UNIT * Sx * Sy + SSIM_C1 * n * n,
         d1 |-> SSIM_UNIT * (Sx * Sx + Sy * Sy) + SSIM_C1 * n * n,
         n2 |-> 2 * SSIM_UNIT * (n * Sxy - Sx * Sy) + SSIM_C2 * n * n,
         d2 |-> SSIM_UNIT * (n * Sxx - Sx * Sx + n * Syy - Sy * Sy) + SSIM_C2 * n * n]

\* photometric_loss_ssim(synt_target, orig_target, reduce=True): the mask and,
\* per entry, either zero (masked) or clip((1 - ssim) / 2, 0, 1) with ssim
\* kept as the quotients of SsimEntry; the loss per example is the mean of
\* the entries, kept as the entries and the count that divides their sum
photometric_loss_ssim(synt, orig) ==
    LET mask == [b \in 1..Len(synt) |-> [s \in 1..Len(synt[b]) |->
                    [p \in 1..Len(synt[b][s]) |-> error_mask(synt[b][s][p])]]]
        ssim ==
            [b \in 1..Len(synt) |-> [s \in 1..Len(synt[b]) |->
                [p \in 1..Len(synt[b][s]) |-> [c \in Channels |->
                    IF mask[b][s][p] THEN [zero |-> TRUE]
                    ELSE [zero |-> FALSE,
                          ssim |-> SsimEntry(orig[b], synt[b][s], p, c)]]]]]
    IN  [fn |-> "photometric_loss_ssim", mask |-> mask, error |-> ssim,
         loss |-> [b \in 1..Len(synt) |->
                     [mean_of |-> ssim[b], over |-> ExampleSize(ssim[b])]]]

InitPhoto ==
    /\ totalIdle /\ ctorIdle /\ msIdle /\ laterIdle
    /\ \E numsrc \in 1..MaxSrc :
          synt_target \in [1..1 -> [1..numsrc -> [1..NumPix -> Pixels]]]
    /\ orig_target \in [1..1 -> [1..NumPix -> TargetPixels]]
    /\ photo_out = NoOutput

CallL1 ==
    /\ photo_out' = photometric_loss_l1(synt_target, orig_target)
    /\ photo_out' # photo_out
    /\ UNCHANGED <<synt_target, orig_target, totalVars, ctorVars, msVars, laterVars>>

CallSSIM ==
    /\ photo_out' = photometric_loss_ssim(synt_target, orig_target)
    /\ photo_out' # photo_out
    /\ UNCHANGED <<synt_target, orig_target, totalVars, ctorVars, msVars, laterVars>>

NextPhoto == CallL1 \/ CallSSIM

SpecPhoto == InitPhoto /\ [][NextPhoto]_vars

Black(pixel) == \A c \in Channels : pixel[c] = 0

\* the (source, pixel) positions of example b whose synthesized pixel is not black
NonBlack(b) ==
    {sp \in (1..Len(synt_target[b])) \X (1..Len(synt_target[b][1])) :
        ~Black(synt_target[b][sp[1]][sp[2]])}

\* sum over the positions S of the absolute error of all channels
RECURSIVE AbsErrorOver(_, _)
AbsErrorOver(S, b) ==
    IF S = {} THEN 0
    ELSE LET sp == CHOOSE sp \in S : TRUE
         IN  SumSeq([c \in Channels |->
                       Abs(synt_target[b][sp[1]][sp[2]][c] - orig_target[b][sp[2]][c])])
             + AbsErrorOver(S \ {sp}, b)

\* every pixel of example b whose channels sum to zero is black
OnlyBlackSumsToZero(b) ==
    \A s \in 1..Len(synt_target[b]) : \A p \in 1..Len(synt_target[b][s]) :
        SumSeq(synt_target[b][s][p]) = 0 => Black(synt_target[b][s][p])

\* C7: a synthesized pixel that is exactly (0,0,0) contributes 0 to the error
\* sum and is left out of the count that divides it: the loss of an example is
\* the absolute error summed over the pixels that are not black, divided by
\* the number of values of those pixels.
C7_MaskedExcludedFromCount ==
    photo_out.fn = "photometric_loss_l1" =>
        \A b \in 1..Len(synt_target) :
            (OnlyBlackSumsToZero(b) /\ NonBlack(b) # {}) =>
                RatEq(photo_out.loss[b],
                      Rat(AbsErrorOver(NonBlack(b), b),
                          Cardinality(NonBlack(b)) * NumChannels))

\* C8: in both photometric losses a synthesized pixel is masked out if and
\* only if all of its channels are exactly zero, negative values included.
C8_MaskedIffAllChannelsZero ==
    photo_out.fn \in {"photometric_loss_l1", "photometric_loss_ssim"} =>
        \A b \in 1..Len(synt_target) : \A s \in 1..Len(synt_target[b]) :
            \A p \in 1..Len(synt_target[b][s]) :
                photo_out.mask[b][s][p] <=> Black(synt_target[b][s][p])

-----------------------------------------------------------------------------
(* The multi scale photometric terms on a batch (SpecMS) *)

RECURSIVE Pow2(_)
Pow2(n) == IF n = 0 THEN 1 ELSE 2 * Pow2(n - 1)

\* pixels of pyramid level i (the first level has full resolution)
LevelPix(i) ==
    LET w == NumPix \div Pow2(i - 1) IN IF w < 1 THEN 1 ELSE w

GrayPixels == {[c \in Channels |-> v] : v \in 0..MaxVal}

RECURSIVE Pyramids(_, _, _)
\* the pyramids of n levels of tensors [batch][numsrc][pixel] of gray pixels
Pyramids(n, batch, numsrc) ==
    IF n = 0 THEN {<< >>}
    ELSE {Append(py, t) :
            py \in Pyramids(n - 1, batch, numsrc),
            t \in [1..batch -> [1..numsrc -> [1..LevelPix(n) -> GrayPixels]]]}

RECURSIVE TargetPyramids(_, _)
TargetPyramids(n, batch) ==
    IF n = 0 THEN {<< >>}
    ELSE {Append(py, t) :
            py \in TargetPyramids(n - 1, batch),
            t \in [1..batch -> [1..LevelPix(n) -> GrayPixels]]}

\* the loop over zip(synth_target_ms, original_target_ms) with
\* self.photometric_loss = photometric_loss_l1: one [batch] vector per level
scale_losses(synth_ms, target_ms) ==
    [i \in 1..zip_len(synth_ms, target_ms) |->
        photometric_loss_l1(synth_ms[i], target_ms[i]).loss]

\* tf.reduce_sum(x) over the list of [batch] vectors: every entry is added
reduce_sum_all(vectors) ==
    RatSum([i \in 1..Len(vectors) |-> RatSum(vectors[i])])

\* PhotometricLossMultiScale.__call__ on augm_data["synth_target_ms"] and
\* augm_data["target_ms"]
PhotometricLossMultiScale_call(synth_target_ms, original_target_ms) ==
    reduce_sum_all(scale_losses(synth_target_ms, original_target_ms))

\* FlowWarpLossMultiScale.__call__ on augm_data["warped_target_ms"] and
\* augm_data["flow_target_ms"]
FlowWarpLossMultiScale_call(warped_target_ms, flow_target_ms) ==
    reduce_sum_all(scale_losses(warped_target_ms, flow_target_ms))

InitMS ==
    /\ totalIdle /\ ctorIdle /\ photoIdle /\ laterIdle
    /\ \E n \in 1..MaxLevels : \E batch \in 1..MaxBatch : \E numsrc \in 1..MaxSrc :
          /\ ms_synth \in Pyramids(n, batch, numsrc)
          /\ ms_target \in TargetPyramids(n, batch)
    /\ ms_out = NoOutput

CallPhotometricLossMultiScale ==
    /\ ms_out' = [fn |-> "PhotometricLossMultiScale",
                  loss |-> PhotometricLossMultiScale_call(ms_synth, ms_target)]
    /\ ms_out' # ms_out
    /\ UNCHANGED <<ms_synth, ms_target, totalVars, ctorVars, photoVars, laterVars>>

CallFlowWarpLossMultiScale ==
    /\ ms_out' = [fn |-> "FlowWarpLossMultiScale",
                  loss |-> FlowWarpLossMultiScale_call(ms_synth, ms_target)]
    /\ ms_out' # ms_out
    /\ UNCHANGED <<ms_synth, ms_target, totalVars, ctorVars, photoVars, laterVars>>

NextMS == CallPhotometricLossMultiScale \/ CallFlowWarpLossMultiScale

SpecMS == InitMS /\ [][NextMS]_vars

\* the mean over the batch of the per-example losses of one level
BatchMean(vector) ==
    LET total == RatSum(vector) IN Rat(total.num, total.den * Len(vector))

\* C10: the multi scale photometric terms reduce over the batch by mean: the
\* value is the sum over the pyramid levels of the mean over the examples of
\* the per-example photometric loss (so B identical examples give the value
\* of one).
C10_BatchReducedByMean ==
    ms_out.fn \in {"PhotometricLossMultiScale", "FlowWarpLossMultiScale"} =>
        LET per_level == scale_losses(ms_synth, ms_target)
        IN  RatEq(ms_out.loss,
                  RatSum([i \in 1..Len(per_level) |-> BatchMean(per_level[i])]))

-----------------------------------------------------------------------------
(* SmoothenessLossMultiScale (losses.py 137-189) on one example.           *)
(* A map is [row][col][channel]; a disparity map has one channel.  The      *)
(* edge weight exp(-m) of a gradient entry is kept by its exponent: with    *)
(* n the sum over the channels of the absolute image gradient the weight    *)
(* is exp(-n / channels), and a loss is the function that gives, for every  *)
(* n, the rational coefficient of exp(-n / NumChannels).  The powers of     *)
(* exp(-1/3) are linearly independent over the rationals, so two losses     *)
(* are equal exactly when all their coefficients are.                       *)

Height(img) == Len(img)
Width(img) == Len(img[1])

\* the scales of the pyramid levels: 1, 2, ..
Scales == {Pow2(k) : k \in 0..(MaxLevels - 1)}
FullSide == LevelSide * Pow2(MaxLevels - 1)

\* maps of one scale: free values in the top left rows x FreeSide window,
\* zero elsewhere
Maps(side, rows, pixels, zero) ==
    {[r \in 1..side |-> [c \in 1..side |->
          IF r <= rows /\ c <= FreeSide THEN w[r][c] ELSE zero]] :
       w \in [1..rows -> [1..FreeSide -> pixels]]}
DispMaps(side) == Maps(side, FreeSide, {<<d>> : d \in 0..MaxVal}, <<0>>)
TargetMaps(side) == Maps(side, 1, GrayPixels, [c \in Channels |-> 0])

\* line 166: gx = img[:, :, :-1, :] - img[:, :, 1:, :]
gradient_x(img) ==
    [r \in 1..Height(img) |-> [c \in 1..(Width(img) - 1) |->
        [ch \in DOMAIN img[r][c] |-> img[r][c][ch] - img[r][c + 1][ch]]]]
\* line 170: gy = img[:, :-1, :, :] - img[:, 1:, :, :]
gradient_y(img) ==
    [r \in 1..(Height(img) - 1) |-> [c \in 1..Width(img) |->
        [ch \in DOMAIN img[r][c] |-> img[r][c][ch] - img[r + 1][c][ch]]]]

RECURSIVE Gcd(_, _)
Gcd(a, b) == IF b = 0 THEN a ELSE Gcd(b, a % b)
\* the same rational in lowest terms
RatReduce(a) ==
    LET g == Gcd(Abs(a.num), Abs(a.den)) IN Rat(a.num \div g, a.den \div g)

Exponents == 0..(NumChannels * MaxVal)
\* lines 179-180: the exponent n of exp(-reduce_mean(abs(gradient), 3))
weight_exponent(g) == SumSeq([ch \in DOMAIN g |-> Abs(g[ch])])

Entries(m) == {<<r, c>> : r \in 1..Height(m), c \in 1..Width(m)}

\* lines 183-187: 0.5 * reduce_mean(abs(disp_gradients * weights)), as the
\* coefficient of every weight
half_mean_abs(disp_gradients, image_gradients) ==
    [n \in Exponents |->
        RatReduce(Rat(SumOver({e \in Entries(disp_gradients) :
                        weight_exponent(image_gradients[e[1]][e[2]]) = n},
                    [e \in Entries(disp_gradients) |-> Abs(disp_gradients[e[1]][e[2]][1])]),
            2 * Cardinality(Entries(disp_gradients))))]

CoefAdd(a, b) == [n \in Exponents |-> RatReduce(RatAdd(a[n], b[n]))]
CoefDiv(a, q) ==
    [n \in Exponents |-> RatReduce(Rat(a[n].num * q.den, a[n].den * q.num))]
CoefEq(a, b) == \A n \in Exponents : RatEq(a[n], b[n])
CoefZero == [n \in Exponents |-> Rat(0, 1)]
RECURSIVE CoefSum(_)
CoefSum(s) == IF s = << >> THEN CoefZero ELSE CoefAdd(Head(s), CoefSum(Tail(s)))

\* lines 159-189
smootheness_loss(disp, image) ==
    CoefAdd(half_mean_abs(gradient_x(disp), gradient_x(image)),
            half_mean_abs(gradient_y(disp), gradient_y(image)))

\* lines 146-157: orig_width is the width of the first level of target_ms
SmoothenessLossMultiScale_call(pred_disp_ms, target_ms) ==
    LET orig_width == Width(target_ms[1])
        n == zip_len(pred_disp_ms, target_ms)
        level_losses ==
            [i \in 1..n |->
                LET scale == Rat(orig_width, Width(target_ms[i]))
                IN  CoefDiv(smootheness_loss(pred_disp_ms[i], target_ms[i]), scale)]
    IN  CoefSum(level_losses)

\* the pyramids: levels of strictly growing scale, the first one of any scale
ScaleLists ==
    {s \in UNION {[1..n -> Scales] : n \in 1..MaxLevels} :
        \A i \in 1..(Len(s) - 1) : s[i + 1] = 2 * s[i]}

InitSmooth ==
    /\ firstIdle /\ sdIdle /\ spIdle /\ l2Idle /\ siIdle /\ mwIdle /\ wcIdle /\ lwIdle /\ tlIdle /\ rdIdle /\ cxIdle /\ pyIdle /\ tmIdle /\ crIdle
    /\ sm_target_shape = [height |-> FullSide, width |-> FullSide]
    /\ \E scales \in ScaleLists :
          /\ sm_disp_ms \in {p \in [1..Len(scales) -> UNION {DispMaps(FullSide \div k) : k \in Scales}] :
                               \A i \in 1..Len(scales) : Height(p[i]) = FullSide \div scales[i]}
          /\ sm_target_ms \in {p \in [1..Len(scales) -> UNION {TargetMaps(FullSide \div k) : k \in Scales}] :
                               \A i \in 1..Len(scales) : Height(p[i]) = FullSide \div scales[i]}
    /\ sm_out = NoOutput

CallSmoothenessLossMultiScale ==
    /\ sm_out = NoOutput
    /\ sm_out' = [fn |-> "SmoothenessLossMultiScale",
                  loss |-> SmoothenessLossMultiScale_call(sm_disp_ms, sm_target_ms)]
    /\ UNCHANGED <<sm_disp_ms, sm_target_ms, sm_target_shape, firstVars, sdVars, spVars, l2Vars, siVars, mwVars, wcVars, lwVars, tlVars, rdVars, cxVars, pyVars, tmVars, crVars>>

NextSmooth == CallSmoothenessLossMultiScale

SpecSmooth == InitSmooth /\ [][NextSmooth]_vars

\* the resolution ratio of level i: full resolution target width over the
\* width of the level
resolution_ratio(i) == Rat(sm_target_shape.width, Width(sm_target_ms[i]))

\* C11: the smoothness term is the sum over the levels i of s_i / r_i, s_i the
\* sum of the horizontal and vertical edge weighted disparity gradient terms
\* of level i and r_i the full resolution target width over the width of
\* level i, also for a pyramid whose first level is not full resolution.
C11_SmoothnessScaledByResolutionRatio ==
    sm_out.fn = "SmoothenessLossMultiScale" =>
        CoefEq(sm_out.loss,
               CoefSum([i \in 1..Len(sm_disp_ms) |->
                           CoefDiv(smootheness_loss(sm_disp_ms[i], sm_target_ms[i]),
                                   resolution_ratio(i))]))

-----------------------------------------------------------------------------
(* StereoDepthLoss (losses.py 192-240).                                    *)
(* The stereo transform is a translation along the baseline (an integer),   *)
(* its matrix inverse the opposite translation; images, intrinsics and      *)
(* depth levels are kept by name, a synthesized level by the arguments it   *)
(* was synthesized from.                                                    *)

Transforms == (-MaxVal)..MaxVal
\* a variant that passes the transform on as it is
no_inverse(t) == t
\* tf.linalg.inv of a translation
inv(t) == -t
\* cp.pose_matr2rvec_batch: the translation is extracted directly, the
\* rotation part of a transform without rotation is the zero vector
pose_matr2rvec_batch(t) == <<t, 0, 0, 0, 0, 0>>
\* predicted poses: twist vectors
PoseVecs == {<<t, 0, 0, r, 0, 0>> : t \in Transforms, r \in 0..1}

Level(what, i) == [what |-> what, level |-> i]
PyramidOf(what, n) == [i \in 1..n |-> Level(what, i)]

\* SynthesizeMultiScale.__call__ (synthesize_base.py 12-29): one synthesized
\* level per depth level
SynthesizeMultiScale_call(src_img_stacked, intrinsic, pred_depth_ms, pred_pose) ==
    [i \in 1..Len(pred_depth_ms) |->
        [source |-> src_img_stacked, intrinsic |-> intrinsic,
         depth |-> pred_depth_ms[i], pose |-> pred_pose]]

\* self.photometric_loss on one level: one value per example
photometric_loss_of(synth_img_sc, target_img_sc) ==
    [synth |-> synth_img_sc, target |-> target_img_sc,
     value |-> [b \in 1..sd_batch |-> sd_photo[target_img_sc.what][target_img_sc.level]]]

\* line 215: losses = loss_left + loss_right (list concatenation)
concat_losses(loss_left, loss_right) == loss_left \o loss_right

\* lines 220-240
stereo_synthesize_loss(source_img, target_ms, target_depth_ms, pose_t2s, intrinsic) ==
    LET pose_stereo == pose_matr2rvec_batch(pose_t2s)
        synth_target_ms ==
            SynthesizeMultiScale_call(source_img, intrinsic, target_depth_ms, pose_stereo)
    IN  [call |-> [source |-> source_img, intrinsic |-> intrinsic,
                   depth_ms |-> target_depth_ms, pose |-> pose_stereo],
         losses |-> [i \in 1..zip_len(synth_target_ms, target_ms) |->
                        photometric_loss_of(synth_target_ms[i], target_ms[i])]]

\* line 217: tf.reduce_sum over the list of per level [batch] vectors
reduce_sum_losses(ls) ==
    SumSeq([i \in 1..Len(ls) |-> SumSeq(ls[i].value)])

InitStereoDepth ==
    /\ firstIdle /\ smoothIdle /\ spIdle /\ l2Idle /\ siIdle /\ mwIdle /\ wcIdle /\ lwIdle /\ tlIdle /\ rdIdle /\ cxIdle /\ pyIdle /\ tmIdle /\ crIdle
    /\ \E t \in Transforms :
          sd_features = [stereo_T_LR |-> t, intrinsic |-> "intrinsic",
                         intrinsic_R |-> "intrinsic_R"]
    /\ \E n \in 1..MaxLevels :
          /\ \E p \in PoseVecs :
                sd_predictions =
                    [k \in {"depth_ms", "depth_ms_R"} |-> PyramidOf(k, n)] @@
                    [k \in {"pose", "pose_R", "pose_LR", "pose_RL"} |-> p]
          /\ sd_augm_data =
                [k \in {"target", "target_R"} |-> k] @@
                [k \in {"target_ms", "target_ms_R"} |-> PyramidOf(k, n)]
          /\ sd_photo \in [{"target_ms", "target_ms_R"} -> [1..n -> LossValues]]
    /\ sd_batch \in 1..MaxBatch
    /\ sd_pc = "left"
    /\ sd_read = {}
    /\ sd_synth = << >>
    /\ sd_loss_left = << >>
    /\ sd_loss_right = << >>
    /\ sd_out = NoOutput

\* lines 202-206: synthesize left image from right image
SynthesizeLeft ==
    /\ sd_pc = "left"
    /\ LET r == stereo_synthesize_loss(sd_augm_data["target_R"],
                                       sd_augm_data["target_ms"],
                                       sd_predictions["depth_ms"],
                                       inv(sd_features["stereo_T_LR"]),
                                       sd_features["intrinsic"])
       IN  /\ sd_loss_left' = r.losses
           /\ sd_synth' = Append(sd_synth, r.call)
    /\ sd_read' = sd_read \cup {"depth_ms"}
    /\ sd_pc' = "right"
    /\ UNCHANGED <<sd_features, sd_predictions, sd_augm_data, sd_photo, sd_batch,
                   sd_loss_right, sd_out, firstVars, smoothVars, spVars, l2Vars, siVars, mwVars, wcVars, lwVars, tlVars, rdVars, cxVars, pyVars, tmVars, crVars>>

\* lines 208-213: synthesize right image from left image
SynthesizeRight ==
    /\ sd_pc = "right"
    /\ LET r == stereo_synthesize_loss(sd_augm_data["target"],
                                       sd_augm_data["target_ms_R"],
                                       sd_predictions["depth_ms_R"],
                                       sd_features["stereo_T_LR"],
                                       sd_features["intrinsic_R"])
       IN  /\ sd_loss_right' = r.losses
           /\ sd_synth' = Append(sd_synth, r.call)
    /\ sd_read' = sd_read \cup {"depth_ms_R"}
    /\ sd_pc' = "sum"
    /\ UNCHANGED <<sd_features, sd_predictions, sd_augm_data, sd_photo, sd_batch,
                   sd_loss_left, sd_out, firstVars, smoothVars, spVars, l2Vars, siVars, mwVars, wcVars, lwVars, tlVars, rdVars, cxVars, pyVars, tmVars, crVars>>

\* lines 215-218
SumStereoLosses ==
    /\ sd_pc = "sum"
    /\ LET ls == concat_losses(sd_loss_left, sd_loss_right)
       IN  sd_out' = [fn |-> "StereoDepthLoss", losses |-> ls,
                      loss |-> reduce_sum_losses(ls)]
    /\ sd_pc' = "done"
    /\ UNCHANGED <<sd_features, sd_predictions, sd_augm_data, sd_photo, sd_batch,
                   sd_read, sd_synth, sd_loss_left, sd_loss_right,
                   firstVars, smoothVars, spVars, l2Vars, siVars, mwVars, wcVars, lwVars, tlVars, rdVars, cxVars, pyVars, tmVars, crVars>>

NextStereoDepth == SynthesizeLeft \/ SynthesizeRight \/ SumStereoLosses

SpecStereoDepth == InitStereoDepth /\ [][NextStereoDepth]_vars

PredictedPoseKeys == {"pose", "pose_R", "pose_LR", "pose_RL"}
StereoTwist(t) == <<t, 0, 0, 0, 0, 0>>

\* C12: the left target is synthesized from the right target with
\* inverse(stereo_T_LR), the left depth pyramid and the left intrinsic, the
\* right target from the left target with stereo_T_LR, the right depth
\* pyramid and the right intrinsic; no predicted pose is read; the value is
\* the sum of the per scale photometric losses of both sides, 2 * (number of
\* scales) of them.
C12_StereoDepthUsesKnownBaseline ==
    /\ sd_pc \in {"right", "sum", "done"} =>
          /\ sd_synth[1] = [source |-> sd_augm_data["target_R"],
                            intrinsic |-> sd_features["intrinsic"],
                            depth_ms |-> sd_predictions["depth_ms"],
                            pose |-> StereoTwist(0 - sd_features["stereo_T_LR"])]
          /\ \A i \in 1..Len(sd_loss_left) :
                sd_loss_left[i].target = sd_augm_data["target_ms"][i]
    /\ sd_pc \in {"sum", "done"} =>
          /\ sd_synth[2] = [source |-> sd_augm_data["target"],
                            intrinsic |-> sd_features["intrinsic_R"],
                            depth_ms |-> sd_predictions["depth_ms_R"],
                            pose |-> StereoTwist(sd_features["stereo_T_LR"])]
          /\ \A i \in 1..Len(sd_loss_right) :
                sd_loss_right[i].target = sd_augm_data["target_ms_R"][i]
    /\ sd_read \cap PredictedPoseKeys = {}
    /\ sd_pc = "done" =>
          LET n == Len(sd_predictions["depth_ms"])
          IN  /\ Len(sd_synth) = 2
              /\ Len(sd_out.losses) = 2 * n
              /\ sd_out.loss =
                    SumSeq([i \in 1..n |->
                              sd_batch * (sd_photo["target_ms"][i]
                                          + sd_photo["target_ms_R"][i])])

\* a finished call on two scales with a stereo transform that differs from
\* its inverse and from the predicted poses, and a non zero right loss
C12_Witness ==
    /\ sd_pc = "done"
    /\ Len(sd_predictions["depth_ms"]) = 2
    /\ sd_features["stereo_T_LR"] = 1
    /\ sd_predictions["pose_LR"] # StereoTwist(1)
    /\ sd_predictions["pose_LR"] # StereoTwist(-1)
    /\ sd_photo["target_ms_R"][2] = 1
    /\ sd_photo["target_ms"][1] = 0
    /\ sd_out.loss > 0

-----------------------------------------------------------------------------
(* StereoPoseLoss (losses.py 243-256) *)

TwistLen == 6

\* tf.keras.losses.MSE: mean over the last axis of the squared difference
MSE(y_true, y_pred) ==
    Rat(SumSeq([k \in 1..Len(y_pred) |-> (y_true[k] - y_pred[k]) * (y_true[k] - y_pred[k])]),
        Len(y_pred))

\* tf.reduce_mean of a [batch][numsrc] tensor of rationals
reduce_mean_all(t) ==
    LET cells == {<<b, s>> : b \in 1..Len(t), s \in 1..Len(t[1])}
        total == RatSum([b \in 1..Len(t) |-> RatReduce(RatSum(t[b]))])
    IN  RatReduce(Rat(total.num, total.den * Cardinality(cells)))

\* a variant that scores only the left to right pose
StereoPoseLoss_call_lr_only(feats, preds) ==
    LET pose_lr_pred == preds["pose_LR"]
        pose_lr_true == [b \in 1..Len(feats["stereo_T_LR"]) |->
                            pose_matr2rvec_batch(feats["stereo_T_LR"][b])]
    IN  reduce_mean_all([b \in 1..Len(pose_lr_pred) |->
                            [s \in 1..Len(pose_lr_pred[b]) |->
                                MSE(pose_lr_true[b], pose_lr_pred[b][s])]])

\* lines 244-256; the truth [batch, 1, 6] is broadcast over the sources
StereoPoseLoss_call(feats, preds) ==
    LET pose_lr_pred == preds["pose_LR"]
        pose_rl_pred == preds["pose_RL"]
        pose_lr_true_mat == feats["stereo_T_LR"]
        pose_rl_true_mat == [b \in 1..Len(pose_lr_true_mat) |-> inv(pose_lr_true_mat[b])]
        pose_lr_true == [b \in 1..Len(pose_lr_true_mat) |->
                            pose_matr2rvec_batch(pose_lr_true_mat[b])]
        pose_rl_true == [b \in 1..Len(pose_rl_true_mat) |->
                            pose_matr2rvec_batch(pose_rl_true_mat[b])]
        loss == [b \in 1..Len(pose_lr_pred) |->
                    [s \in 1..Len(pose_lr_pred[b]) |->
                        RatAdd(MSE(pose_lr_true[b], pose_lr_pred[b][s]),
                               MSE(pose_rl_true[b], pose_rl_pred[b][s]))]]
    IN  reduce_mean_all(loss)

\* predicted stereo poses: translations along the baseline
StereoPoseVecs == {<<t, 0, 0, 0, 0, 0>> : t \in Transforms}

\* the rig's transform is the same for every example; the pose network gives
\* every source of an example the same twist
InitStereoPose ==
    /\ firstIdle /\ smoothIdle /\ sdIdle /\ l2Idle /\ siIdle /\ mwIdle /\ wcIdle /\ lwIdle /\ tlIdle /\ rdIdle /\ cxIdle /\ pyIdle /\ tmIdle /\ crIdle
    /\ \E batch \in 1..MaxBatch : \E numsrc \in 1..MaxSrc :
          /\ \E t \in Transforms : sp_features = [stereo_T_LR |-> [b \in 1..batch |-> t]]
          /\ \E lr \in [1..batch -> StereoPoseVecs] :
             \E rl \in [1..batch -> StereoPoseVecs] :
                sp_predictions =
                    [pose_LR |-> [b \in 1..batch |-> [s \in 1..numsrc |-> lr[b]]],
                     pose_RL |-> [b \in 1..batch |-> [s \in 1..numsrc |-> rl[b]]]]
    /\ sp_out = NoOutput

CallStereoPoseLoss ==
    /\ sp_out = NoOutput
    /\ sp_out' = [fn |-> "StereoPoseLoss",
                  loss |-> StereoPoseLoss_call(sp_features, sp_predictions)]
    /\ UNCHANGED <<sp_features, sp_predictions, firstVars, smoothVars, sdVars, l2Vars, siVars, mwVars, wcVars, lwVars, tlVars, rdVars, cxVars, pyVars, tmVars, crVars>>

NextStereoPose == CallStereoPoseLoss

SpecStereoPose == InitStereoPose /\ [][NextStereoPose]_vars

SquaredError(truth, pred) ==
    SumSeq([k \in 1..TwistLen |-> (truth[k] - pred[k]) * (truth[k] - pred[k])])

\* C13: the stereo pose term is the mean over the batch (and the sources) of
\* MSE(true_LR, pose_LR) + MSE(true_RL, pose_RL), true_LR the twist of
\* stereo_T_LR and true_RL the twist of its inverse; both directions are
\* summed, and the value is 0 when both predictions equal their truths.
C13_StereoPoseIsMeanOfBothMSE ==
    sp_out.fn = "StereoPoseLoss" =>
        LET batch == Len(sp_features["stereo_T_LR"])
            numsrc == Len(sp_predictions["pose_LR"][1])
            true_LR(b) == StereoTwist(sp_features["stereo_T_LR"][b])
            true_RL(b) == StereoTwist(0 - sp_features["stereo_T_LR"][b])
            total ==
                SumSeq([b \in 1..batch |->
                    SumSeq([s \in 1..numsrc |->
                        SquaredError(true_LR(b), sp_predictions["pose_LR"][b][s])
                        + SquaredError(true_RL(b), sp_predictions["pose_RL"][b][s])])])
        IN  /\ RatEq(sp_out.loss, Rat(total, TwistLen * batch * numsrc))
            /\ (\A b \in 1..batch : \A s \in 1..numsrc :
                    /\ sp_predictions["pose_LR"][b][s] = true_LR(b)
                    /\ sp_predictions["pose_RL"][b][s] = true_RL(b))
                => sp_out.loss.num = 0

\* a batch of two with a non zero transform: one example predicted exactly,
\* the other wrong only in the right to left pose
C13_Witness ==
    /\ sp_out.fn = "StereoPoseLoss"
    /\ Len(sp_features["stereo_T_LR"]) = 2
    /\ sp_features["stereo_T_LR"][1] = 1
    /\ sp_predictions["pose_LR"][1][1] = StereoTwist(1)
    /\ sp_predictions["pose_RL"][1][1] = StereoTwist(-1)
    /\ sp_predictions["pose_LR"][2][1] = StereoTwist(1)
    /\ sp_predictions["pose_RL"][2][1] = StereoTwist(1)
    /\ RatEq(sp_out.loss, Rat(4, 12))

\* both predictions equal to their truths give the value 0
C13_WitnessZero ==
    /\ sp_out.fn = "StereoPoseLoss"
    /\ sp_features["stereo_T_LR"][1] = 1
    /\ \A b \in 1..Len(sp_features["stereo_T_LR"]) :
          /\ sp_predictions["pose_LR"][b][1] = StereoTwist(1)
          /\ sp_predictions["pose_RL"][b][1] = StereoTwist(-1)
    /\ sp_out.loss.num = 0

-----------------------------------------------------------------------------
(* L2Regularizer (losses.py 283-291) built from                            *)
(* ModelWrapper.weights_to_regularize (model_wrappers.py 74-78).           *)
(* A tensor is the sequence of its entries.                                  *)

NetNames == {"depthnet", "posenet", "flownet"}
Tensors == UNION {[1..n -> (-MaxVal)..MaxVal] : n \in 1..NumPix}
WeightLists == UNION {[1..n -> Tensors] : n \in 0..MaxTensors}

\* Python values: None, or a list of tensors
None == [is_none |-> TRUE, tensors |-> << >>]
ListOf(tensors) == [is_none |-> FALSE, tensors |-> tensors]

\* model_wrappers.py 74-78
weights_to_regularize(models, trainable) ==
    IF "flownet" \in models THEN ListOf(trainable) ELSE None

\* tf.nn.l2_loss: sum(t ** 2) / 2
l2_loss(t) == Rat(SumSeq([k \in 1..Len(t) |-> t[k] * t[k]]), 2)

\* lines 287-291: iterating over None raises TypeError; loss starts at 0
L2Regularizer_call(weights) ==
    IF weights.is_none
    THEN [raised |-> "TypeError", loss |-> Rat(0, 1)]
    ELSE [raised |-> "none",
          loss |-> RatSum([i \in 1..Len(weights.tensors) |-> l2_loss(weights.tensors[i])])]

InitL2 ==
    /\ firstIdle /\ smoothIdle /\ sdIdle /\ spIdle /\ siIdle /\ mwIdle /\ wcIdle /\ lwIdle /\ tlIdle /\ rdIdle /\ cxIdle /\ pyIdle /\ tmIdle /\ crIdle
    /\ l2_models \in (SUBSET NetNames) \ {{}}
    /\ l2_trainable \in IF "flownet" \in l2_models THEN WeightLists ELSE {<< >>}
    /\ l2_weights = None
    /\ l2_pc = "construct"
    /\ l2_raised = "none"
    /\ l2_out = NoOutput

\* L2Regularizer(model.weights_to_regularize()): lines 284-285
ConstructL2Regularizer ==
    /\ l2_pc = "construct"
    /\ l2_weights' = weights_to_regularize(l2_models, l2_trainable)
    /\ l2_pc' = "call"
    /\ UNCHANGED <<l2_models, l2_trainable, l2_raised, l2_out,
                   firstVars, smoothVars, sdVars, spVars, siVars, mwVars, wcVars, lwVars, tlVars, rdVars, cxVars, pyVars, tmVars, crVars>>

CallL2Regularizer ==
    /\ l2_pc = "call"
    /\ LET r == L2Regularizer_call(l2_weights)
       IN  /\ l2_raised' = r.raised
           /\ l2_pc' = IF r.raised = "none" THEN "done" ELSE "error"
           /\ l2_out' = IF r.raised = "none"
                        THEN [fn |-> "L2Regularizer", loss |-> r.loss]
                        ELSE l2_out
    /\ UNCHANGED <<l2_models, l2_trainable, l2_weights,
                   firstVars, smoothVars, sdVars, spVars, siVars, mwVars, wcVars, lwVars, tlVars, rdVars, cxVars, pyVars, tmVars, crVars>>

NextL2 == ConstructL2Regularizer \/ CallL2Regularizer

SpecL2 == InitL2 /\ [][NextL2]_vars

\* the designated parameter set: the flow network's weights, empty without one
DesignatedSet == IF "flownet" \in l2_models THEN l2_trainable ELSE << >>
SumOfSquares(ws) ==
    SumSeq([i \in 1..Len(ws) |-> SumSeq([k \in 1..Len(ws[i]) |-> ws[i][k] * ws[i][k]])])

\* C14: the regularizer returns 0.5 times the sum of the squared entries of
\* all tensors of the designated set, and returns a value (0) rather than
\* failing when the set is empty or the model has no flow network.
C14_L2IsHalfSumOfSquares ==
    l2_pc \in {"done", "error"} =>
        /\ l2_raised = "none"
        /\ l2_out.fn = "L2Regularizer"
        /\ RatEq(l2_out.loss, Rat(SumOfSquares(DesignatedSet), 2))

-----------------------------------------------------------------------------
(* SynthesizeBatchBasic.read_shape and scale_intrinsic                     *)
(* (synthesize_base.py 32-72)                                              *)

\* line 33: SynthesizeBatchBasic(shape=(0, 0, 0), num_src=0, scale=0)
SynthesizeBatchBasic_init ==
    [batch |-> 0, height |-> 0, width |-> 0, num_src |-> 0, scale |-> 0]

\* lines 61-65; int() of a quotient of positive numbers truncates
read_shape(self, src_shape, depth_shape) ==
    LET width_orig == src_shape.width
        stacked_height == src_shape.height
        scale == width_orig \div depth_shape.width
    IN  [batch |-> depth_shape.batch, height |-> depth_shape.height,
         width |-> depth_shape.width, scale |-> scale,
         num_src |-> (stacked_height \div scale) \div depth_shape.height]

\* a variant that divides the whole matrix by the scale
scale_intrinsic_all_rows(self, intrinsic, scale) ==
    [b \in 1..Len(intrinsic) |->
        [r \in 1..3 |-> [c \in 1..3 |-> Rat(intrinsic[b][r][c], scale)]]]

\* lines 67-72: the first two rows divided by scale, then self.batch rows
\* [0, 0, 1]; tf.concat needs the same batch size in both parts
scale_intrinsic(self, intrinsic, scale) ==
    LET scaled_part == [b \in 1..Len(intrinsic) |->
                           [r \in 1..2 |-> [c \in 1..3 |-> Rat(intrinsic[b][r][c], scale)]]]
        const_part == [b \in 1..self.batch |-> <<<<Rat(0, 1), Rat(0, 1), Rat(1, 1)>>>>]
    IN  IF Len(scaled_part) # Len(const_part)
        THEN << >>
        ELSE [b \in 1..Len(scaled_part) |-> scaled_part[b] \o const_part[b]]

\* intrinsic matrices: focal lengths and principal point, bottom row [0, 0, 1]
Intrinsics ==
    {<< <<fx, 0, cx>>, <<0, fy, cy>>, <<0, 0, 1>> >> :
        fx \in 1..(MaxVal + 1), fy \in 1..(MaxVal + 1),
        cx \in 0..MaxVal, cy \in 0..MaxVal}

\* one camera for the whole batch; the depth level has one of the pyramid scales
InitIntrinsic ==
    /\ firstIdle /\ smoothIdle /\ sdIdle /\ spIdle /\ l2Idle /\ mwIdle /\ wcIdle /\ lwIdle /\ tlIdle /\ rdIdle /\ cxIdle /\ pyIdle /\ tmIdle /\ crIdle
    /\ \E batch \in 1..MaxBatch : \E numsrc \in 1..MaxSrc : \E k \in Scales :
          /\ si_src_shape = [batch |-> batch, height |-> numsrc * FullSide,
                             width |-> FullSide]
          /\ si_depth_shape = [batch |-> batch, height |-> FullSide \div k,
                               width |-> FullSide \div k]
          /\ \E K \in Intrinsics : si_intrinsic = [b \in 1..batch |-> K]
    /\ si_self = SynthesizeBatchBasic_init
    /\ si_pc = "read_shape"
    /\ si_out = NoOutput

\* line 48: self.read_shape(src_img_stacked, depth_sc)
ReadShape ==
    /\ si_pc = "read_shape"
    /\ si_self' = read_shape(si_self, si_src_shape, si_depth_shape)
    /\ si_pc' = "scale_intrinsic"
    /\ UNCHANGED <<si_src_shape, si_depth_shape, si_intrinsic, si_out,
                   firstVars, smoothVars, sdVars, spVars, l2Vars, mwVars, wcVars, lwVars, tlVars, rdVars, cxVars, pyVars, tmVars, crVars>>

\* lines 50-51: intrinsic_sc = self.scale_intrinsic(intrin, self.scale)
ScaleIntrinsic ==
    /\ si_pc = "scale_intrinsic"
    /\ si_out' = [fn |-> "scale_intrinsic",
                  intrinsic_sc |-> scale_intrinsic(si_self, si_intrinsic, si_self.scale)]
    /\ si_pc' = "done"
    /\ UNCHANGED <<si_src_shape, si_depth_shape, si_intrinsic, si_self,
                   firstVars, smoothVars, sdVars, spVars, l2Vars, mwVars, wcVars, lwVars, tlVars, rdVars, cxVars, pyVars, tmVars, crVars>>

NextIntrinsic == ReadShape \/ ScaleIntrinsic

SpecIntrinsic == InitIntrinsic /\ [][NextIntrinsic]_vars

\* C15: scale_intrinsic(K, s) has every entry of the first two rows (focal
\* lengths, principal point; so the top left 2 x 2 too) equal to K's divided
\* by s, and the bottom row [0, 0, 1], for every batch element.
C15_ScaleIntrinsic ==
    si_pc = "done" =>
        LET s == si_src_shape.width \div si_depth_shape.width
            out == si_out.intrinsic_sc
        IN  /\ s >= 1
            /\ Len(out) = Len(si_intrinsic)
            /\ \A b \in 1..Len(si_intrinsic) :
                  /\ Len(out[b]) = 3
                  /\ \A r \in 1..2 : \A c \in 1..3 :
                        out[b][r][c].num * s = si_intrinsic[b][r][c] * out[b][r][c].den
                  /\ \A c \in 1..3 :
                        out[b][3][c].num = (IF c = 3 THEN 1 ELSE 0) * out[b][3][c].den

\* a batch of two scaled by 2, with a focal length that 2 does not divide
C15_Witness ==
    /\ si_pc = "done"
    /\ si_self.scale = 2
    /\ Len(si_intrinsic) = 2
    /\ si_intrinsic[2][1][1] = 1
    /\ si_intrinsic[2][2][3] = 1
    /\ RatEq(si_out.intrinsic_sc[2][1][1], Rat(1, 2))
    /\ RatEq(si_out.intrinsic_sc[2][3][3], Rat(1, 1))

-----------------------------------------------------------------------------
(* ModelWrapper.predict and StereoModelWrapper.predict                     *)
(* (model_wrappers.py 28-62, 124-142).                                     *)
(* A network's output is kept by the network, the input it was run on and,  *)
(* for a pyramid, the level; level 1 is index 0, the highest resolution.    *)

Range(f) == {f[i] : i \in DOMAIN f}

\* the orders in which the networks of a model can sit in self.models
ModelLists ==
    {m \in UNION {[1..n -> NetNames] : n \in 1..Cardinality(NetNames)} :
        \A i, j \in DOMAIN m : i # j => m[i] # m[j]}

\* name[:-3]
StripNet(name) ==
    CASE name = "depthnet" -> "depth"
      [] name = "posenet" -> "pose"
      [] name = "flownet" -> "flow"

\* the keys a network returns (class docstring, lines 13-15; lines 52-61)
NetOutputKeys(net) ==
    CASE net = "depthnet" -> {"depth_ms", "disp_ms"}
      [] net = "posenet" -> {"pose"}
      [] net = "flownet" -> {"flow_ms"}

\* model(image): pose is one tensor, the other outputs are pyramids
RunNet(net, image, levels) ==
    [k \in NetOutputKeys(net) |->
        IF k = "pose"
        THEN [net |-> net, key |-> k, input |-> image]
        ELSE [i \in 1..levels |-> [net |-> net, key |-> k, input |-> image, level |-> i]]]

RECURSIVE RunModels(_, _, _)
\* lines 43-46: predictions.update(model(features["image_aug" + suffix]))
RunModels(models, image, levels) ==
    IF models = << >> THEN EmptyDict
    ELSE DictUpdate(RunModels(SubSeq(models, 1, Len(models) - 1), image, levels),
                    RunNet(models[Len(models)], image, levels))

\* line 48: {key + suffix: value for key, value in predictions.items()}
AddSuffix(d, suffix) ==
    [ks \in Suffixed(DOMAIN d, suffix) |-> d[CHOOSE k \in DOMAIN d : k \o suffix = ks]]

\* a variant that leaves the keys without the suffix
predict_batch_unsuffixed(models, feats, suffix, levels) ==
    RunModels(models, feats["image_aug" \o suffix], levels)

\* lines 42-49
predict_batch(models, feats, suffix, levels) ==
    AddSuffix(RunModels(models, feats["image_aug" \o suffix], levels), suffix)

ListAppend(outputs, key, value) ==
    [outputs EXCEPT ![key] = Append(@, value)]

\* a variant that keeps the coarsest level of the pyramids
append_outputs_coarsest(models, preds, outputs, suffix) ==
    LET o1 == IF ("pose" \o suffix) \in DOMAIN preds
              THEN ListAppend(outputs, "pose" \o suffix, preds["pose" \o suffix])
              ELSE outputs
        o2 == IF ("depthnet" \o suffix) \in Range(models)
              THEN ListAppend(o1, "depth" \o suffix,
                              preds["depth_ms" \o suffix][Len(preds["depth_ms" \o suffix])])
              ELSE o1
        o3 == IF ("flownet" \o suffix) \in Range(models)
              THEN ListAppend(o2, "flow" \o suffix,
                              preds["flow_ms" \o suffix][Len(preds["flow_ms" \o suffix])])
              ELSE o2
    IN  o3

\* lines 51-62; every lookup here finds its key
append_outputs(models, preds, outputs, suffix) ==
    LET o1 == IF ("pose" \o suffix) \in DOMAIN preds
              THEN ListAppend(outputs, "pose" \o suffix, preds["pose" \o suffix])
              ELSE outputs
        o2 == IF ("depthnet" \o suffix) \in Range(models)
              THEN ListAppend(o1, "depth" \o suffix, preds["depth_ms" \o suffix][1])
              ELSE o1
        o3 == IF ("flownet" \o suffix) \in Range(models)
              THEN ListAppend(o2, "flow" \o suffix, preds["flow_ms" \o suffix][1])
              ELSE o2
    IN  o3

\* lines 30, 126-128
InitialOutputs(kind, models) ==
    LET left == [k \in {StripNet(models[i]) : i \in DOMAIN models} |-> << >>]
        right == [k \in {StripNet(models[i]) \o "_R" : i \in DOMAIN models} |-> << >>]
    IN  IF kind = "StereoModelWrapper" THEN DictUpdate(left, right) ELSE left

FeatureBatch(j) ==
    [image_aug |-> [batch |-> j, key |-> "image_aug"],
     image_aug_R |-> [batch |-> j, key |-> "image_aug_R"]]

InitPredict ==
    /\ firstIdle /\ smoothIdle /\ sdIdle /\ spIdle /\ l2Idle /\ siIdle /\ wcIdle /\ lwIdle /\ tlIdle /\ rdIdle /\ cxIdle /\ pyIdle /\ tmIdle /\ crIdle
    /\ mw_kind \in {"ModelWrapper", "StereoModelWrapper"}
    /\ mw_models \in ModelLists
    /\ mw_levels \in 1..MaxLevels
    /\ \E B \in 1..MaxSteps : mw_dataset = [j \in 1..B |-> FeatureBatch(j)]
    /\ mw_step = 0
    /\ mw_pc = "loop"
    /\ mw_outputs = InitialOutputs(mw_kind, mw_models)
    /\ mw_calls = << >>
    /\ mw_raised = "none"
    /\ mw_result = << >>

\* one pass of the loop of ModelWrapper.predict: lines 31-34
PredictStep ==
    /\ mw_pc = "loop" /\ mw_kind = "ModelWrapper"
    /\ mw_step < Len(mw_dataset)
    /\ LET feats == mw_dataset[mw_step + 1]
           preds == predict_batch(mw_models, feats, "", mw_levels)
       IN  mw_outputs' = append_outputs(mw_models, preds, mw_outputs, "")
    /\ mw_calls' = Append(mw_calls, <<mw_step + 1, "">>)
    /\ mw_step' = mw_step + 1
    /\ UNCHANGED <<mw_kind, mw_models, mw_levels, mw_dataset, mw_pc, mw_raised,
                   mw_result, firstVars, smoothVars, sdVars, spVars, l2Vars, siVars, wcVars, lwVars, tlVars, rdVars, cxVars, pyVars, tmVars, crVars>>

\* one pass of the loop of StereoModelWrapper.predict: lines 130-136
StereoPredictStep ==
    /\ mw_pc = "loop" /\ mw_kind = "StereoModelWrapper"
    /\ mw_step < Len(mw_dataset)
    /\ LET feats == mw_dataset[mw_step + 1]
           preds == DictUpdate(predict_batch(mw_models, feats, "", mw_levels),
                               predict_batch(mw_models, feats, "_R", mw_levels))
           left == append_outputs(mw_models, preds, mw_outputs, "")
       IN  mw_outputs' = append_outputs(mw_models, preds, left, "_R")
    /\ mw_calls' = mw_calls \o << <<mw_step + 1, "">>, <<mw_step + 1, "_R">> >>
    /\ mw_step' = mw_step + 1
    /\ UNCHANGED <<mw_kind, mw_models, mw_levels, mw_dataset, mw_pc, mw_raised,
                   mw_result, firstVars, smoothVars, sdVars, spVars, l2Vars, siVars, wcVars, lwVars, tlVars, rdVars, cxVars, pyVars, tmVars, crVars>>

\* np.concatenate / tf.concat of a list along axis 0: the list itself, in
\* order; an empty list has nothing to concatenate and raises ValueError
concatenate(data) == [raised |-> IF data = << >> THEN "ValueError" ELSE "none",
                      value |-> data]

\* lines 38-40 and 140-142
ConcatenateOutputs ==
    /\ mw_pc = "loop"
    /\ mw_step = Len(mw_dataset)
    /\ IF \E key \in DOMAIN mw_outputs : concatenate(mw_outputs[key]).raised # "none"
       THEN /\ mw_raised' = "ValueError"
            /\ mw_pc' = "error"
            /\ UNCHANGED mw_result
       ELSE /\ mw_result' = [key \in DOMAIN mw_outputs |-> concatenate(mw_outputs[key]).value]
            /\ mw_pc' = "done"
            /\ UNCHANGED mw_raised
    /\ UNCHANGED <<mw_kind, mw_models, mw_levels, mw_dataset, mw_step, mw_outputs,
                   mw_calls, firstVars, smoothVars, sdVars, spVars, l2Vars, siVars, wcVars, lwVars, tlVars, rdVars, cxVars, pyVars, tmVars, crVars>>

NextPredict == PredictStep \/ StereoPredictStep \/ ConcatenateOutputs

SpecPredict == InitPredict /\ [][NextPredict]_vars

\* the quantity a network stands for and the prediction it is taken from
Quantity(net) ==
    IF net = "depthnet" THEN "depth" ELSE IF net = "posenet" THEN "pose" ELSE "flow"
\* the output of batch j a quantity should hold: the pose, or the highest
\* resolution level of the depth or flow pyramid
HighestResolution(net, j, suffix) ==
    LET image == [batch |-> j, key |-> "image_aug" \o suffix]
    IN  IF net = "posenet"
        THEN [net |-> net, key |-> "pose", input |-> image]
        ELSE [net |-> net, key |-> IF net = "depthnet" THEN "depth_ms" ELSE "flow_ms",
              input |-> image, level |-> 1]

\* C16: ModelWrapper.predict calls predict_batch once per batch in dataset
\* order and returns, for every present network's quantity, the
\* concatenation of exactly B per batch outputs, each depth / flow entry the
\* highest resolution level.
C16_PredictConcatenatesHighestResolution ==
    mw_kind = "ModelWrapper" =>
        /\ mw_calls = [j \in 1..mw_step |-> <<j, "">>]
        /\ mw_pc \in {"done", "error"} =>
              /\ mw_pc = "done"
              /\ mw_step = Len(mw_dataset)
              /\ DOMAIN mw_result = {Quantity(n) : n \in Range(mw_models)}
              /\ \A n \in Range(mw_models) :
                    mw_result[Quantity(n)] =
                        [j \in 1..Len(mw_dataset) |-> HighestResolution(n, j, "")]

\* a finished mono prediction over two batches with all three networks and
\* two pyramid levels
C16_Witness ==
    /\ mw_kind = "ModelWrapper"
    /\ mw_pc = "done"
    /\ Len(mw_dataset) = 2
    /\ Range(mw_models) = NetNames
    /\ mw_levels = 2
    /\ Len(mw_result["depth"]) = 2
    /\ mw_result["depth"][2].level = 1

\* C17: StereoModelWrapper.predict accumulates B per batch outputs under
\* every output key it creates, left and right, so no list is empty at the
\* final concatenation and predict returns a result for both cameras.
C17_StereoPredictFillsBothCameras ==
    mw_kind = "StereoModelWrapper" =>
        /\ \A key \in DOMAIN mw_outputs : Len(mw_outputs[key]) = mw_step
        /\ mw_pc \in {"done", "error"} =>
              /\ mw_pc = "done"
              /\ DOMAIN mw_result =
                    {Quantity(n) : n \in Range(mw_models)}
                    \cup {Quantity(n) \o "_R" : n \in Range(mw_models)}
              /\ \A n \in Range(mw_models) :
                    /\ mw_result[Quantity(n)] =
                          [j \in 1..Len(mw_dataset) |-> HighestResolution(n, j, "")]
                    /\ mw_result[Quantity(n) \o "_R"] =
                          [j \in 1..Len(mw_dataset) |-> HighestResolution(n, j, "_R")]

-----------------------------------------------------------------------------
(* StereoModelWrapper.__call__ and StereoPoseModelWrapper.__call__         *)
(* (model_wrappers.py 117-122, 149-175).                                   *)
(* An image snippet is the sequence of its SNIPPET_LEN frames, the target   *)
(* frame last.                                                              *)

Snippet(cam, augmented) ==
    [i \in 1..SNIPPET_LEN |-> [cam |-> cam, frame |-> i, augmented |-> augmented]]

RawFeatures == [image |-> Snippet("left", FALSE), image_R |-> Snippet("right", FALSE)]

\* self.augmenter(features): adds the augmented snippets
augmenter(feats) ==
    DictUpdate(feats, [image_aug |-> Snippet("left", TRUE),
                       image_aug_R |-> Snippet("right", TRUE)])

\* the runs of predict_batch: every network on features["image_aug" + suffix]
predict_batch_runs(models, feats, suffix) ==
    [i \in 1..Len(models) |-> [net |-> models[i], input |-> feats["image_aug" \o suffix]]]

\* image[:, -1]
LastFrame(image) == image[Len(image)]
\* [a] * n + [b]
Stack(a, n, b) == [i \in 1..(n + 1) |-> IF i <= n THEN a ELSE b]

\* a variant with the two stacks exchanged
predict_stereo_pose_swapped(models, feats, levels) ==
    LET left_target == LastFrame(feats["image_aug"])
        right_target == LastFrame(feats["image_aug_R"])
        numsrc == SNIPPET_LEN - 1
        lr_input == Stack(left_target, numsrc, right_target)
        rl_input == Stack(right_target, numsrc, left_target)
    IN  [outputs |-> [pose_LR |-> RunNet("posenet", lr_input, levels)["pose"],
                      pose_RL |-> RunNet("posenet", rl_input, levels)["pose"]],
         runs |-> <<[net |-> "posenet", input |-> lr_input],
                    [net |-> "posenet", input |-> rl_input]>>]

\* lines 159-175
predict_stereo_pose(models, feats, levels) ==
    LET left_target == LastFrame(feats["image_aug"])
        right_target == LastFrame(feats["image_aug_R"])
        numsrc == SNIPPET_LEN - 1
        lr_input == Stack(right_target, numsrc, left_target)
        rl_input == Stack(left_target, numsrc, right_target)
    IN  [outputs |-> [pose_LR |-> RunNet("posenet", lr_input, levels)["pose"],
                      pose_RL |-> RunNet("posenet", rl_input, levels)["pose"]],
         runs |-> <<[net |-> "posenet", input |-> lr_input],
                    [net |-> "posenet", input |-> rl_input]>>]

InitCall ==
    /\ firstIdle /\ smoothIdle /\ sdIdle /\ spIdle /\ l2Idle /\ siIdle /\ mwIdle /\ lwIdle /\ tlIdle /\ rdIdle /\ cxIdle /\ pyIdle /\ tmIdle /\ crIdle
    /\ wc_kind \in {"StereoModelWrapper", "StereoPoseModelWrapper"}
    /\ wc_models \in ModelLists
    /\ wc_levels \in 1..MaxLevels
    /\ wc_features = RawFeatures
    /\ wc_pc = "left"
    /\ wc_predictions = EmptyDict
    /\ wc_runs = << >>
    /\ wc_result = << >>

\* lines 118-119 and 150-151
CallPredictLeft ==
    /\ wc_pc = "left"
    /\ LET feats == augmenter(wc_features)
       IN  /\ wc_features' = feats
           /\ wc_predictions' = predict_batch(wc_models, feats, "", wc_levels)
           /\ wc_runs' = wc_runs \o predict_batch_runs(wc_models, feats, "")
    /\ wc_pc' = "right"
    /\ UNCHANGED <<wc_kind, wc_models, wc_levels, wc_result,
                   firstVars, smoothVars, sdVars, spVars, l2Vars, siVars, mwVars, lwVars, tlVars, rdVars, cxVars, pyVars, tmVars, crVars>>

\* lines 120-121 and 152-153
CallPredictRight ==
    /\ wc_pc = "right"
    /\ wc_predictions' =
          DictUpdate(wc_predictions, predict_batch(wc_models, wc_features, "_R", wc_levels))
    /\ wc_runs' = wc_runs \o predict_batch_runs(wc_models, wc_features, "_R")
    /\ wc_pc' = IF wc_kind = "StereoPoseModelWrapper" /\ "posenet" \in Range(wc_models)
                THEN "stereo_pose" ELSE "return"
    /\ UNCHANGED <<wc_kind, wc_models, wc_levels, wc_features, wc_result,
                   firstVars, smoothVars, sdVars, spVars, l2Vars, siVars, mwVars, lwVars, tlVars, rdVars, cxVars, pyVars, tmVars, crVars>>

\* lines 154-156
CallPredictStereoPose ==
    /\ wc_pc = "stereo_pose"
    /\ LET r == predict_stereo_pose(wc_models, wc_features, wc_levels)
       IN  /\ wc_predictions' = DictUpdate(wc_predictions, r.outputs)
           /\ wc_runs' = wc_runs \o r.runs
    /\ wc_pc' = "return"
    /\ UNCHANGED <<wc_kind, wc_models, wc_levels, wc_features, wc_result,
                   firstVars, smoothVars, sdVars, spVars, l2Vars, siVars, mwVars, lwVars, tlVars, rdVars, cxVars, pyVars, tmVars, crVars>>

\* lines 122 and 157
ReturnPredictions ==
    /\ wc_pc = "return"
    /\ wc_result' = wc_predictions
    /\ wc_pc' = "done"
    /\ UNCHANGED <<wc_kind, wc_models, wc_levels, wc_features, wc_predictions, wc_runs,
                   firstVars, smoothVars, sdVars, spVars, l2Vars, siVars, mwVars, lwVars, tlVars, rdVars, cxVars, pyVars, tmVars, crVars>>

NextCall == CallPredictLeft \/ CallPredictRight \/ CallPredictStereoPose \/ ReturnPredictions

SpecCall == InitCall /\ [][NextCall]_vars

\* what network net returns under key k for the input image
NetValue(net, k, image) ==
    IF k = "pose"
    THEN [net |-> net, key |-> k, input |-> image]
    ELSE [i \in 1..wc_levels |-> [net |-> net, key |-> k, input |-> image, level |-> i]]

\* how many of the runs made were of network net on the input image
RunCount(net, image) ==
    Cardinality({i \in DOMAIN wc_runs : wc_runs[i] = [net |-> net, input |-> image]})

LeftKeys == UNION {NetOutputKeys(net) : net \in Range(wc_models)}

\* C18: StereoModelWrapper.__call__ runs every network once on image_aug and
\* once on image_aug_R, and returns the union of both results: every left key k
\* is there as k with the left value, the right value is there as k + "_R",
\* and there are no other keys.
C18_StereoCallReturnsUnionOfBothCameras ==
    (wc_kind = "StereoModelWrapper" /\ wc_pc = "done") =>
        /\ Len(wc_runs) = 2 * Len(wc_models)
        /\ \A net \in Range(wc_models) :
              /\ RunCount(net, wc_features["image_aug"]) = 1
              /\ RunCount(net, wc_features["image_aug_R"]) = 1
              /\ \A k \in NetOutputKeys(net) :
                    /\ k \in DOMAIN wc_result
                    /\ (k \o "_R") \in DOMAIN wc_result
                    /\ wc_result[k] = NetValue(net, k, wc_features["image_aug"])
                    /\ wc_result[k \o "_R"] = NetValue(net, k, wc_features["image_aug_R"])
        /\ DOMAIN wc_result = LeftKeys \cup Suffixed(LeftKeys, "_R")

C18_Witness ==
    /\ wc_kind = "StereoModelWrapper" /\ wc_pc = "done"
    /\ Len(wc_models) = 3
    /\ wc_levels = MaxLevels
    /\ wc_result["depth_ms"] # wc_result["depth_ms_R"]
    /\ Cardinality(DOMAIN wc_result) = 8

\* the target frames of the two cameras
LeftTarget == wc_features["image_aug"][SNIPPET_LEN]
RightTarget == wc_features["image_aug_R"][SNIPPET_LEN]

\* n copies of frame a followed by frame b
CopiesThen(a, n, b) == [i \in 1..n |-> a] \o <<b>>

\* C19: StereoPoseModelWrapper.__call__ returns pose_LR and pose_RL exactly
\* when a network named "posenet" is present; pose_LR is the pose network's
\* output on SNIPPET_LEN - 1 copies of the right target frame followed by the
\* left target frame, pose_RL its output on SNIPPET_LEN - 1 copies of the left
\* target frame followed by the right target frame.
C19_StereoPoseKeysIffPosenet ==
    (wc_kind = "StereoPoseModelWrapper" /\ wc_pc = "done") =>
        /\ ("pose_LR" \in DOMAIN wc_result) <=> ("posenet" \in Range(wc_models))
        /\ ("pose_RL" \in DOMAIN wc_result) <=> ("posenet" \in Range(wc_models))
        /\ ("posenet" \in Range(wc_models)) =>
              /\ wc_result["pose_LR"] =
                    NetValue("posenet", "pose", CopiesThen(RightTarget, SNIPPET_LEN - 1, LeftTarget))
              /\ wc_result["pose_RL"] =
                    NetValue("posenet", "pose", CopiesThen(LeftTarget, SNIPPET_LEN - 1, RightTarget))

C19_Witness ==
    /\ wc_kind = "StereoPoseModelWrapper" /\ wc_pc = "done"
    /\ "posenet" \in Range(wc_models)
    /\ "pose_LR" \in DOMAIN wc_result
    /\ Len(wc_result["pose_LR"].input) = SNIPPET_LEN
    /\ wc_result["pose_LR"] # wc_result["pose_RL"]

\* a call of the same wrapper without a pose network returns neither key
C19_WitnessNoPosenet ==
    /\ wc_kind = "StereoPoseModelWrapper" /\ wc_pc = "done"
    /\ "posenet" \notin Range(wc_models)
    /\ "pose_LR" \notin DOMAIN wc_result

-----------------------------------------------------------------------------
(* ModelWrapper.load_weights (model_wrappers.py 85-93).                    *)
(* The parameters of a network are named by where they come from: the      *)
(* file they were loaded from, or "scratch".                                *)

SnapshotSuffixes == {"latest", "ep05"}

\* line 87: f"{netname}_{suffix}.h5" under ckpt_dir_path
ckpt_file(netname, suffix) == netname \o "_" \o suffix \o ".h5"

SnapshotFiles == {ckpt_file(n, x) : n \in NetNames, x \in SnapshotSuffixes}

\* a variant that takes every file to exist
isfile_always(file, files) == TRUE

\* op.isfile(ckpt_file)
isfile(file, files) == file \in files

\* model.load_weights(ckpt_file): reads the file, raises when there is none
keras_load_weights(file, files) ==
    IF file \in files THEN [raised |-> FALSE, params |-> file]
    ELSE [raised |-> TRUE, params |-> ""]

InitLoad ==
    /\ firstIdle /\ smoothIdle /\ sdIdle /\ spIdle /\ l2Idle /\ siIdle /\ mwIdle /\ wcIdle /\ tlIdle /\ rdIdle /\ cxIdle /\ pyIdle /\ tmIdle /\ crIdle
    /\ lw_models \in ModelLists
    /\ lw_suffix \in SnapshotSuffixes
    /\ lw_files \in SUBSET SnapshotFiles
    /\ lw_params = [n \in Range(lw_models) |-> "scratch"]
    /\ lw_idx = 1
    /\ lw_pc = "loop"
    /\ lw_log = << >>

\* lines 86-93: one iteration of the loop
LoadWeightsStep ==
    /\ lw_pc = "loop"
    /\ lw_idx <= Len(lw_models)
    /\ LET netname == lw_models[lw_idx]
           file == ckpt_file(netname, lw_suffix)
       IN  IF isfile(file, lw_files)
           THEN LET r == keras_load_weights(file, lw_files)
                IN  IF r.raised
                    THEN /\ lw_pc' = "raised"
                         /\ UNCHANGED <<lw_params, lw_idx, lw_log>>
                    ELSE /\ lw_params' = [lw_params EXCEPT ![netname] = r.params]
                         /\ lw_log' = Append(lw_log, netname)
                         /\ lw_idx' = lw_idx + 1
                         /\ lw_pc' = "loop"
           ELSE /\ lw_idx' = lw_idx + 1
                /\ UNCHANGED <<lw_params, lw_log, lw_pc>>
    /\ UNCHANGED <<lw_models, lw_suffix, lw_files,
                   firstVars, smoothVars, sdVars, spVars, l2Vars, siVars, mwVars, wcVars, tlVars, rdVars, cxVars, pyVars, tmVars, crVars>>

\* the loop is exhausted: load_weights returns
LoadWeightsReturn ==
    /\ lw_pc = "loop"
    /\ lw_idx > Len(lw_models)
    /\ lw_pc' = "done"
    /\ UNCHANGED <<lw_models, lw_suffix, lw_files, lw_params, lw_idx, lw_log,
                   firstVars, smoothVars, sdVars, spVars, l2Vars, siVars, mwVars, wcVars, tlVars, rdVars, cxVars, pyVars, tmVars, crVars>>

NextLoad == LoadWeightsStep \/ LoadWeightsReturn

SpecLoad == InitLoad /\ [][NextLoad]_vars

\* the networks whose snapshot file exists
WithFile == {n \in Range(lw_models) : ckpt_file(n, lw_suffix) \in lw_files}

\* C20: load_weights never fails because a snapshot file is missing; when it
\* returns, exactly the networks whose file {netname}_{suffix}.h5 exists have
\* been loaded (from that file, in the order of the networks), every other
\* network keeps its parameters, and a missing file does not stop the loop
\* before the networks that follow.
C20_LoadWeightsSkipsMissingFiles ==
    /\ lw_pc # "raised"
    /\ lw_pc = "done" =>
          /\ lw_idx = Len(lw_models) + 1
          /\ Range(lw_log) = WithFile
          /\ Len(lw_log) = Cardinality(WithFile)
          /\ \A n \in Range(lw_models) :
                lw_params[n] = IF n \in WithFile THEN ckpt_file(n, lw_suffix) ELSE "scratch"
    /\ lw_pc \in {"loop", "done"} =>
          \A i \in 1..(lw_idx - 1) :
              (lw_models[i] \in WithFile) <=> (lw_params[lw_models[i]] # "scratch")

\* the first network has no file, a later one has and was loaded
C20_Witness ==
    /\ lw_pc = "done"
    /\ Len(lw_models) = 3
    /\ lw_models[1] \notin WithFile
    /\ lw_models[3] \in WithFile
    /\ lw_params[lw_models[1]] = "scratch"
    /\ lw_params[lw_models[3]] = ckpt_file(lw_models[3], lw_suffix)
    /\ lw_files # {}

-----------------------------------------------------------------------------
(* Two successive calls of TotalLoss.__call__ on the same TotalLoss object *)
(* with the same features and predictions objects (losses.py 23-47).       *)

\* a variant in which the list of the previous call is kept
kept_losses(previous) == previous

\* line 40: losses = []
fresh_losses(previous) == << >>

\* the caller takes what the first call returned or raised and calls again:
\* a new activation of __call__, its locals fresh
CallAgain ==
    /\ tl_calls = 0
    /\ pc \in {"done", "error"}
    /\ tl_first' = [ended |-> pc, raised |-> raised, total_loss |-> total_loss,
                    losses |-> losses]
    /\ tl_calls' = 1
    /\ pc' = "start"
    /\ augm_data' = EmptyDict
    /\ idx' = 1
    /\ losses' = fresh_losses(losses)
    /\ total_loss' = 0
    /\ raised' = NoError
    /\ work' = << >>
    /\ UNCHANGED <<predictions, features, calc_losses, loss_weights, stereo>>
    /\ UNCHANGED <<ctorVars, photoVars, msVars, quietVars>>

NextRepeat == AugmentLeft \/ AugmentRight \/ EvalTerm \/ Finish \/ CallAgain

SpecRepeat == Init /\ [][NextRepeat]_vars

\* what the caller passed and configured
CallerState == <<predictions, features, calc_losses, loss_weights, stereo>>

C21_WitnessRaises ==
    /\ tl_calls = 1 /\ pc = "error"
    /\ raised.type = "KeyError"
    /\ Len(tl_first.losses) = 1

-----------------------------------------------------------------------------
(* image_reader and pose_reader (tfrecord_writer.py 129-161).              *)
(* An image is the sequence of its rows, a pose file the sequence of its   *)
(* rows of 7 numbers.                                                      *)

\* seq[a:b] and seq[a:] for 0 <= a
Slice(seq, a, b) == SubSeq(seq, a + 1, Min(b, Len(seq)))
SliceFrom(seq, a) == SubSeq(seq, a + 1, Len(seq))

\* a variant that leaves the rows where they are
image_reader_as_stored(image) == image

\* lines 133-144
image_reader(image) ==
    LET height == Len(image) \div SNIPPET_LEN
        half_len == SNIPPET_LEN \div 2
        src_up == Slice(image, 0, height * half_len)
        target == Slice(image, height * half_len, height * (half_len + 1))
        src_dw == SliceFrom(image, height * (half_len + 1))
    IN  src_up \o src_dw \o target

\* np.delete(arr, index, 0)
np_delete(arr, index) ==
    [i \in 1..(Len(arr) - 1) |-> IF i <= index THEN arr[i] ELSE arr[i + 1]]

\* cp.pose_quat2matr(pose): the 4x4 matrix of a pose row
pose_quat2matr(pose) ==
    [i \in 1..4 |-> [j \in 1..4 |-> [pose |-> pose, row |-> i, col |-> j]]]

\* a variant that drops the first row
pose_reader_drop_first(poses) ==
    LET rest == np_delete(poses, 0)
    IN  [i \in 1..Len(rest) |-> pose_quat2matr(rest[i])]

\* lines 153-161
pose_reader(poses) ==
    LET half_len == SNIPPET_LEN \div 2
        rest == np_delete(poses, half_len)
    IN  [i \in 1..Len(rest) |-> pose_quat2matr(rest[i])]

\* the rows of a snippet image of SNIPPET_LEN frames of h rows; frame f shows
\* the value v[f]
SnippetImage(h, v) ==
    [r \in 1..(SNIPPET_LEN * h) |->
        [value |-> v[((r - 1) \div h) + 1], row |-> ((r - 1) % h) + 1]]

SnippetImages ==
    {SnippetImage(h, v) : h \in 1..MaxFrameRows, v \in [1..SNIPPET_LEN -> 0..MaxVal]}

\* pose rows: position and quaternion
PoseRow(x) == <<x, 0, 0, 1, 0, 0, 0>>
PoseFiles == {[f \in 1..SNIPPET_LEN |-> PoseRow(v[f])] : v \in [1..SNIPPET_LEN -> 0..MaxVal]}

InitReaders ==
    /\ firstIdle /\ smoothIdle /\ sdIdle /\ spIdle /\ l2Idle /\ siIdle /\ mwIdle /\ wcIdle /\ lwIdle /\ tlIdle /\ cxIdle /\ pyIdle /\ tmIdle /\ crIdle
    /\ \/ rd_image \in SnippetImages /\ rd_poses = << >>
       \/ rd_image = << >> /\ rd_poses \in PoseFiles
    /\ rd_out = NoOutput

CallImageReader ==
    /\ rd_out = NoOutput
    /\ rd_image # << >>
    /\ rd_out' = [fn |-> "image_reader", value |-> image_reader(rd_image)]
    /\ UNCHANGED <<rd_image, rd_poses,
                   firstVars, smoothVars, sdVars, spVars, l2Vars, siVars, mwVars, wcVars, lwVars, tlVars, cxVars, pyVars, tmVars, crVars>>

CallPoseReader ==
    /\ rd_out = NoOutput
    /\ rd_poses # << >>
    /\ rd_out' = [fn |-> "pose_reader", value |-> pose_reader(rd_poses)]
    /\ UNCHANGED <<rd_image, rd_poses,
                   firstVars, smoothVars, sdVars, spVars, l2Vars, siVars, mwVars, wcVars, lwVars, tlVars, cxVars, pyVars, tmVars, crVars>>

NextReaders == CallImageReader \/ CallPoseReader

SpecReaders == InitReaders /\ [][NextReaders]_vars

\* rows of one frame of the image read
FrameRows == Len(rd_image) \div SNIPPET_LEN
\* frame f (from 0) of a stacked image
FrameOf(image, f) == SubSeq(image, f * FrameRows + 1, (f + 1) * FrameRows)
\* the position of the temporal median
Median == (SNIPPET_LEN - 1) \div 2
\* the frame of the input that is source j (from 0) in temporal order
SourceFrame(j) == IF j < Median THEN j ELSE j + 1
\* how often a row occurs in an image
Occurrences(image, row) == Cardinality({i \in DOMAIN image : image[i] = row})

\* C22: image_reader returns an image of the same shape whose rows are a
\* permutation of the input's rows; its last frame is the median frame of the
\* input and the frames before it are the sources in their temporal order.
C22_ImageReaderPutsTargetLast ==
    rd_out.fn = "image_reader" =>
        /\ Len(rd_out.value) = Len(rd_image)
        /\ \A i \in DOMAIN rd_image :
              Occurrences(rd_out.value, rd_image[i]) = Occurrences(rd_image, rd_image[i])
        /\ FrameOf(rd_out.value, SNIPPET_LEN - 1) = FrameOf(rd_image, Median)
        /\ \A j \in 0..(SNIPPET_LEN - 2) :
              FrameOf(rd_out.value, j) = FrameOf(rd_image, SourceFrame(j))

C22_Witness ==
    /\ rd_out.fn = "image_reader"
    /\ FrameRows = MaxFrameRows
    /\ rd_out.value # rd_image
    /\ FrameOf(rd_image, Median) # FrameOf(rd_image, SNIPPET_LEN - 1)
    /\ FrameOf(rd_image, Median) # FrameOf(rd_image, Median + 1)

\* the snippet image, one row per frame, whose frame f shows the position of pose row f
ImageOfPoses == SnippetImage(1, [f \in 1..SNIPPET_LEN |-> rd_poses[f][1]])

\* C23: pose_reader drops exactly the pose row of the target frame (index
\* SNIPPET_LEN // 2) and returns one 4x4 matrix per remaining pose in the
\* original order: SNIPPET_LEN - 1 matrices, the j-th belonging to the frame
\* that image_reader puts at position j.
C23_PoseReaderDropsTargetPose ==
    rd_out.fn = "pose_reader" =>
        /\ Len(rd_out.value) = SNIPPET_LEN - 1
        /\ \A j \in 0..(SNIPPET_LEN - 2) :
              /\ DOMAIN rd_out.value[j + 1] = 1..4
              /\ \A i \in 1..4 : DOMAIN rd_out.value[j + 1][i] = 1..4
              /\ rd_out.value[j + 1] = pose_quat2matr(rd_poses[SourceFrame(j) + 1])
              /\ rd_out.value[j + 1][1][1].pose[1] = image_reader(ImageOfPoses)[j + 1].value

C23_Witness ==
    /\ rd_out.fn = "pose_reader"
    /\ rd_poses[Median + 1] # rd_poses[1]
    /\ rd_poses[Median + 1] # rd_poses[Median + 2]
    /\ rd_poses[Median] # rd_poses[Median + 2]
    /\ Len(rd_out.value) = 4

-----------------------------------------------------------------------------
(* SynthesizeBatchBasic.read_shape on depth maps of every width            *)
(* (synthesize_base.py 47-65): the depth map has the aspect of a source     *)
(* frame, its width need not divide the frame's.                            *)

InitShape ==
    /\ firstIdle /\ smoothIdle /\ sdIdle /\ spIdle /\ l2Idle /\ mwIdle /\ wcIdle /\ lwIdle /\ tlIdle /\ rdIdle /\ cxIdle /\ pyIdle /\ tmIdle /\ crIdle
    /\ \E batch \in 1..MaxBatch : \E numsrc \in 1..MaxSrc :
       \E W \in 1..FullSide : \E H \in 1..FullSide : \E w \in 1..W : \E h \in 1..H :
          /\ h * W = H * w
          /\ si_src_shape = [batch |-> batch, height |-> numsrc * H, width |-> W]
          /\ si_depth_shape = [batch |-> batch, height |-> h, width |-> w]
          /\ \E K \in Intrinsics : si_intrinsic = [b \in 1..batch |-> K]
    /\ si_self = SynthesizeBatchBasic_init
    /\ si_pc = "read_shape"
    /\ si_out = NoOutput

SpecShape == InitShape /\ [][NextIntrinsic]_vars

\* C24: for every source stack of width W and every depth map of width w and
\* height h, the scale used is W / w, the intrinsic matrix is divided by it,
\* and num_src * scale * h is the height of the source stack, also when w
\* does not divide W.
C24_ScaleIsWidthRatio ==
    /\ si_pc \in {"scale_intrinsic", "done"} =>
          /\ si_self.scale * si_depth_shape.width = si_src_shape.width
          /\ si_self.num_src * si_self.scale * si_depth_shape.height = si_src_shape.height
    /\ si_pc = "done" =>
          \A b \in 1..Len(si_intrinsic) : \A r \in 1..2 : \A c \in 1..3 :
              si_out.intrinsic_sc[b][r][c].num * si_src_shape.width =
                  si_intrinsic[b][r][c] * si_depth_shape.width * si_out.intrinsic_sc[b][r][c].den

\* the depth maps whose width divides the width of the source stack
C24_HoldsForWholeRatios ==
    (si_src_shape.width % si_depth_shape.width = 0) => C24_ScaleIsWidthRatio

-----------------------------------------------------------------------------
(* SynthesizeBatchBasic.cam2pixel (synthesize_base.py 164-181).            *)
(* Coordinates are float32 numbers; they are kept as whole multiples of    *)
(* 1e-10. A sum of two floats is zero exactly when one is the negative of  *)
(* the other, and a float division by zero gives inf or nan, no exception.  *)

Finite(num, den) == [kind |-> "finite", num |-> num, den |-> den]

\* a / b in floating point
float_div(a, b) ==
    IF b # 0 THEN Finite(a, b)
    ELSE IF a = 0 THEN [kind |-> "nan", num |-> 0, den |-> 0]
    ELSE [kind |-> "inf", num |-> a, den |-> 0]

\* tf.matmul of a 3 x 3 matrix and the 3 x n matrix of the points
matmul3(m, pts) ==
    [r \in 1..3 |-> [k \in 1..Len(pts[1]) |->
        m[r][1] * pts[1][k] + m[r][2] * pts[2][k] + m[r][3] * pts[3][k]]]

\* lines 170-181
cam2pixel(self, cam_coords, intrinsic) ==
    [b \in 1..Len(cam_coords) |-> [n \in 1..self.num_src |->
        LET point_coords == SubSeq(cam_coords[b][n], 1, 3)
            pixel_coords == matmul3(intrinsic[b], point_coords)
            pixel_scales == pixel_coords[3]
        IN  [r \in 1..3 |-> [k \in 1..Len(pixel_scales) |->
                float_div(pixel_coords[r][k], pixel_scales[k] + Epsilon)]]]]

\* points (x, y, z, 1) of one source frame
CamPoints ==
    {<< <<x>>, <<y>>, <<z>>, <<1>> >> :
        x \in 0..MaxVal, y \in 0..MaxVal, z \in (-MaxDepth)..MaxDepth}

InitCam ==
    /\ firstIdle /\ smoothIdle /\ sdIdle /\ spIdle /\ l2Idle /\ siIdle /\ mwIdle /\ wcIdle /\ lwIdle /\ tlIdle /\ rdIdle /\ pyIdle /\ tmIdle /\ crIdle
    /\ \E p \in CamPoints : cx_cam_coords = << <<p>> >>
    /\ \E K \in Intrinsics : cx_intrinsic = <<K>>
    /\ cx_out = NoOutput

\* line 114: src_pixel_coords = self.cam2pixel(src_cam_coords, intrinsic)
CallCam2Pixel ==
    /\ cx_out = NoOutput
    /\ cx_out' = [fn |-> "cam2pixel",
                  pixel_coords |-> cam2pixel([num_src |-> Len(cx_cam_coords[1])],
                                             cx_cam_coords, cx_intrinsic)]
    /\ UNCHANGED <<cx_cam_coords, cx_intrinsic,
                   firstVars, smoothVars, sdVars, spVars, l2Vars, siVars, mwVars, wcVars, lwVars, tlVars, rdVars, pyVars, tmVars, crVars>>

NextCam == CallCam2Pixel

SpecCam == InitCam /\ [][NextCam]_vars

\* the third projected component of point k of source n of example b
ThirdComponent(b, n, k) == matmul3(cx_intrinsic[b], SubSeq(cx_cam_coords[b][n], 1, 3))[3][k]

\* C25: the divisor (third projected component + 1e-10) is non-zero for every
\* value of the third component, so every pixel coordinate cam2pixel returns
\* is a finite number.
C25_DivisorNeverZero ==
    cx_out.fn = "cam2pixel" =>
        \A b \in DOMAIN cx_cam_coords : \A n \in DOMAIN cx_cam_coords[b] :
        \A k \in DOMAIN cx_cam_coords[b][n][1] :
            /\ ThirdComponent(b, n, k) + Epsilon # 0
            /\ \A r \in 1..3 : cx_out.pixel_coords[b][n][r][k].kind = "finite"

\* a third component of exactly zero is divided by 1e-10 alone
C25_ZeroDepthIsFinite ==
    cx_out.fn = "cam2pixel" =>
        \A b \in DOMAIN cx_cam_coords : \A n \in DOMAIN cx_cam_coords[b] :
        \A k \in DOMAIN cx_cam_coords[b][n][1] :
            ThirdComponent(b, n, k) = 0 =>
                \A r \in 1..3 : cx_out.pixel_coords[b][n][r][k].kind = "finite"

-----------------------------------------------------------------------------
(* SynthesizeMultiScale.__call__ (synthesize_base.py 11-29) followed by    *)
(* the loop of PhotometricLossMultiScale.__call__ (losses.py 123-130).     *)
(* A synthesized level keeps the depth level it was made from and, per      *)
(* source image found in the stack, the index of that source.               *)

\* SynthesizeBatchBasic()(src_img_stacked, intrinsic, depth_sc, poses_matr):
\* [batch, num_src, height, width, 3] (lines 39-58, 75-88)
SynthesizeBatchBasic_call(src_shape, depth_sc) ==
    LET self == read_shape(SynthesizeBatchBasic_init, src_shape, depth_sc)
    IN  [depth |-> depth_sc,
         batch |-> self.batch, height |-> self.height, width |-> self.width,
         images |-> [n \in 1..self.num_src |-> [source |-> n, scale |-> self.scale]]]

\* a variant that puts the new level in front
prepend_target(synth_targets, synth_target_sc) == <<synth_target_sc>> \o synth_targets

\* line 27: synth_targets.append(synth_target_sc)
append_target(synth_targets, synth_target_sc) == Append(synth_targets, synth_target_sc)

\* a map of one pyramid level
LevelMap(batch, k, v) ==
    [batch |-> batch, height |-> FullSide \div k, width |-> FullSide \div k, value |-> v]

InitPyramid ==
    /\ firstIdle /\ smoothIdle /\ sdIdle /\ spIdle /\ l2Idle /\ siIdle /\ mwIdle /\ wcIdle /\ lwIdle /\ tlIdle /\ rdIdle /\ cxIdle /\ tmIdle /\ crIdle
    /\ \E batch \in 1..MaxBatch : \E numsrc \in 1..MaxSrc : \E n \in 1..MaxLevels :
       \E k \in [1..n -> Scales] : \E d \in [1..n -> 0..MaxVal] : \E t \in [1..n -> 0..MaxVal] :
          /\ py_src_shape = [batch |-> batch, height |-> numsrc * FullSide, width |-> FullSide]
          /\ py_depth_ms = [i \in 1..n |-> LevelMap(batch, k[i], d[i])]
          /\ py_target_ms = [i \in 1..n |-> LevelMap(batch, k[i], t[i])]
    /\ py_pc = "synthesize"
    /\ py_synth = << >>
    /\ py_pairs = << >>

\* synthesize_base.py lines 25-27: one iteration of the loop over pred_depth_ms
SynthesizeScale ==
    /\ py_pc = "synthesize"
    /\ Len(py_synth) < Len(py_depth_ms)
    /\ LET depth_sc == py_depth_ms[Len(py_synth) + 1]
       IN  py_synth' = append_target(py_synth, SynthesizeBatchBasic_call(py_src_shape, depth_sc))
    /\ UNCHANGED <<py_src_shape, py_depth_ms, py_target_ms, py_pc, py_pairs,
                   firstVars, smoothVars, sdVars, spVars, l2Vars, siVars, mwVars, wcVars, lwVars, tlVars, rdVars, cxVars, tmVars, crVars>>

\* synthesize_base.py line 29: the list is returned (and put into augm_data)
ReturnSynthTargets ==
    /\ py_pc = "synthesize"
    /\ Len(py_synth) = Len(py_depth_ms)
    /\ py_pc' = "pair"
    /\ UNCHANGED <<py_src_shape, py_depth_ms, py_target_ms, py_synth, py_pairs,
                   firstVars, smoothVars, sdVars, spVars, l2Vars, siVars, mwVars, wcVars, lwVars, tlVars, rdVars, cxVars, tmVars, crVars>>

\* losses.py lines 126-129: one iteration of the loop over
\* zip(synth_target_ms, original_target_ms)
PairScale ==
    /\ py_pc = "pair"
    /\ Len(py_pairs) < zip_len(py_synth, py_target_ms)
    /\ LET i == Len(py_pairs) + 1
       IN  py_pairs' = Append(py_pairs, [synt_target |-> py_synth[i],
                                         orig_target |-> py_target_ms[i]])
    /\ UNCHANGED <<py_src_shape, py_depth_ms, py_target_ms, py_synth, py_pc,
                   firstVars, smoothVars, sdVars, spVars, l2Vars, siVars, mwVars, wcVars, lwVars, tlVars, rdVars, cxVars, tmVars, crVars>>

\* losses.py lines 131-134: the loop is over
FinishPairs ==
    /\ py_pc = "pair"
    /\ Len(py_pairs) = zip_len(py_synth, py_target_ms)
    /\ py_pc' = "done"
    /\ UNCHANGED <<py_src_shape, py_depth_ms, py_target_ms, py_synth, py_pairs,
                   firstVars, smoothVars, sdVars, spVars, l2Vars, siVars, mwVars, wcVars, lwVars, tlVars, rdVars, cxVars, tmVars, crVars>>

NextPyramid == SynthesizeScale \/ ReturnSynthTargets \/ PairScale \/ FinishPairs

SpecPyramid == InitPyramid /\ [][NextPyramid]_vars

\* the source images stacked in src_img_stacked
SourcesInStack == py_src_shape.height \div FullSide

\* C26: the list SynthesizeMultiScale returns has one entry per entry of
\* pred_depth_ms in the same order, entry i made from depth level i alone, of
\* its size, with one image per source index; PhotometricLossMultiScale pairs
\* entry i of that list with entry i of the target pyramid.
C26_PyramidPositionsAlign ==
    /\ py_pc \in {"pair", "done"} =>
          /\ Len(py_synth) = Len(py_depth_ms)
          /\ \A i \in 1..Len(py_depth_ms) :
                /\ py_synth[i].depth = py_depth_ms[i]
                /\ py_synth[i].height = py_depth_ms[i].height
                /\ py_synth[i].width = py_depth_ms[i].width
                /\ Len(py_synth[i].images) = SourcesInStack
                /\ \A n \in 1..SourcesInStack : py_synth[i].images[n].source = n
    /\ py_pc = "done" =>
          /\ Len(py_pairs) = Len(py_depth_ms)
          /\ \A i \in 1..Len(py_pairs) :
                /\ py_pairs[i].synt_target.depth = py_depth_ms[i]
                /\ py_pairs[i].orig_target = py_target_ms[i]
                /\ py_pairs[i].synt_target.width = py_pairs[i].orig_target.width

\* a pyramid of two levels that differ, the coarse one first
C26_Witness ==
    /\ py_pc = "done"
    /\ Len(py_depth_ms) = 2
    /\ py_depth_ms[1].width < py_depth_ms[2].width
    /\ py_depth_ms[1].value # py_depth_ms[2].value
    /\ Len(py_pairs) = 2

-----------------------------------------------------------------------------
(* The flow warper in TotalLoss.augment_data (checked under Spec)          *)

\* the calls of the flow warper made so far for the suffix
FlowWarps(suffix) == Len(SelectSeq(work, LAMBDA e : e = <<"flow_warp", suffix>>))

\* augment_data(features, predictions, suffix) has returned
Augmented(suffix) == ("source" \o suffix) \in DOMAIN augm_data

\* C27: augment_data invokes the flow warper and adds flow_target_ms and
\* warped_target_ms, with the suffix of the call, exactly when flow_ms with
\* that suffix is in predictions; source, target, target_ms and
\* synth_target_ms are added in both cases.
C27_FlowWarpIffFlowPredicted ==
    \A suffix \in Suffixes :
        LET flow == ("flow_ms" \o suffix) \in predictions
        IN  /\ FlowWarps(suffix) > 0 => flow
            /\ Augmented(suffix) =>
                  /\ FlowWarps(suffix) = (IF flow THEN 1 ELSE 0)
                  /\ (("flow_target_ms" \o suffix) \in DOMAIN augm_data) <=> flow
                  /\ (("warped_target_ms" \o suffix) \in DOMAIN augm_data) <=> flow
                  /\ Suffixed({"source", "target", "target_ms", "synth_target_ms"}, suffix)
                        \subseteq DOMAIN augm_data

\* both cameras augmented, with flow
C27_Witness ==
    /\ pc = "loop"
    /\ Augmented("") /\ Augmented("_R")
    /\ "flow_ms_R" \in predictions
    /\ FlowWarps("_R") = 1
    /\ "warped_target_ms_R" \in DOMAIN augm_data

\* augmented without a flow prediction
C27_WitnessNoFlow ==
    /\ pc = "loop"
    /\ Augmented("")
    /\ "flow_ms" \notin predictions
    /\ FlowWarps("") = 0
    /\ "warped_target_ms" \notin DOMAIN augm_data

-----------------------------------------------------------------------------
(* TfrecordMaker.make (tfrecord_writer.py 25-49), after create_feeders has *)
(* found the images. The feeders hand out their examples one after the     *)
(* other, so a shard file is kept as the first example written to it       *)
(* (counted from 0) and the number of examples written.                    *)

Max(a, b) == IF a >= b THEN a ELSE b

\* line 33
num_shards_of(num_images) == Max(Min(num_images \div ImagesPerShard, ShardLimit), 1)

\* line 34
num_images_per_shard_of(num_images) == num_images \div num_shards_of(num_images)

InitMake ==
    /\ firstIdle /\ smoothIdle /\ sdIdle /\ spIdle /\ l2Idle /\ siIdle /\ mwIdle /\ wcIdle /\ lwIdle /\ tlIdle /\ rdIdle /\ cxIdle /\ pyIdle /\ crIdle
    /\ tm_num_images \in 1..MaxImages
    /\ tm_pc = "config"
    /\ tm_length = 0
    /\ tm_fed = 0
    /\ tm_shards = << >>

\* line 31 (lines 98-107): config["length"] = len(feeders["image"])
WriteTfrecordConfig ==
    /\ tm_pc = "config"
    /\ tm_length' = tm_num_images
    /\ tm_pc' = "shards"
    /\ UNCHANGED <<tm_num_images, tm_fed, tm_shards,
                   firstVars, smoothVars, sdVars, spVars, l2Vars, siVars, mwVars, wcVars, lwVars, tlVars, rdVars, cxVars, pyVars, crVars>>

\* lines 38-46: one iteration of the loop over range(num_shards); the inner
\* loop writes the next example for every fi of the shard's range
WriteShard ==
    /\ tm_pc = "shards"
    /\ Len(tm_shards) < num_shards_of(tm_num_images)
    /\ LET si == Len(tm_shards)
           per == num_images_per_shard_of(tm_num_images)
           count == (si + 1) * per - si * per
       IN  /\ tm_shards' = Append(tm_shards, [first |-> tm_fed, count |-> count])
           /\ tm_fed' = tm_fed + count
    /\ UNCHANGED <<tm_num_images, tm_pc, tm_length,
                   firstVars, smoothVars, sdVars, spVars, l2Vars, siVars, mwVars, wcVars, lwVars, tlVars, rdVars, cxVars, pyVars, crVars>>

\* line 48: every shard is written
FinishMake ==
    /\ tm_pc = "shards"
    /\ Len(tm_shards) = num_shards_of(tm_num_images)
    /\ tm_pc' = "done"
    /\ UNCHANGED <<tm_num_images, tm_length, tm_fed, tm_shards,
                   firstVars, smoothVars, sdVars, spVars, l2Vars, siVars, mwVars, wcVars, lwVars, tlVars, rdVars, cxVars, pyVars, crVars>>

NextMake == WriteTfrecordConfig \/ WriteShard \/ FinishMake

SpecMake == InitMake /\ [][NextMake]_vars

RECURSIVE ExamplesIn(_, _)
\* the examples in the first k shards
ExamplesIn(shards, k) == IF k = 0 THEN 0 ELSE shards[k].count + ExamplesIn(shards, k - 1)

\* C28: for every number n >= 1 of source images, make writes every example
\* once, in feeder order: the shards hold n examples in all, the length
\* recorded in tfr_config.txt; there are between 1 and ShardLimit shards and
\* every shard holds the same number of examples.
C28_EveryExampleWrittenOnce ==
    tm_pc = "done" =>
        /\ ExamplesIn(tm_shards, Len(tm_shards)) = tm_num_images
        /\ tm_length = tm_num_images
        /\ \A k \in 1..Len(tm_shards) : tm_shards[k].first = ExamplesIn(tm_shards, k - 1)
        /\ Len(tm_shards) \in 1..ShardLimit
        /\ \A j, k \in 1..Len(tm_shards) : tm_shards[j].count = tm_shards[k].count

\* what holds for every n: no example twice, feeder order, equal shards, at
\* most n examples
C28_NoExampleTwice ==
    tm_pc = "done" =>
        /\ ExamplesIn(tm_shards, Len(tm_shards)) <= tm_num_images
        /\ tm_length = tm_num_images
        /\ \A k \in 1..Len(tm_shards) : tm_shards[k].first = ExamplesIn(tm_shards, k - 1)
        /\ Len(tm_shards) \in 1..ShardLimit
        /\ \A j, k \in 1..Len(tm_shards) : tm_shards[j].count = tm_shards[k].count

-----------------------------------------------------------------------------
(* CityScapesReader.__init__ and list_drive_paths (city_reader.py 13-46).  *)
(* A png file is kept by the parts of its name between the "_": city,      *)
(* sequence number, frame number, "leftImg8bit.png". Sequence numbers are  *)
(* zero padded strings of one width, which sort as the numbers they show.  *)

CityNames == {"aachen", "bochum"}

PngFile(city, seq, frame) == <<city, seq, frame, "leftImg8bit.png">>

\* DataReaderBase.__init__(base_path, stereo): keeps the arguments
DataReaderBase_init(stereo_arg) == [stereo |-> stereo_arg]

\* file.split("_")[-3]
seq_number_of(file) == file[Len(file) - 2]

RECURSIVE ListOfSet(_)
\* the files glob finds, in some order
ListOfSet(S) ==
    IF S = {} THEN << >>
    ELSE LET x == CHOOSE y \in S : TRUE IN <<x>> \o ListOfSet(S \ {x})

RECURSIVE SortList(_)
\* list.sort()
SortList(l) ==
    IF l = << >> THEN << >>
    ELSE LET i == CHOOSE j \in DOMAIN l : \A k \in DOMAIN l : l[j] <= l[k]
         IN  <<l[i]>> \o SortList([k \in 1..(Len(l) - 1) |-> IF k < i THEN l[k] ELSE l[k + 1]])

\* a variant without list(set(seq_numbers))
seq_paths_of_city_with_repeats(split, city, files) ==
    LET glob == ListOfSet(files)
        seq_numbers == SortList([i \in DOMAIN glob |-> seq_number_of(glob[i])])
    IN  [i \in DOMAIN seq_numbers |-> [split |-> split, city |-> city, seq |-> seq_numbers[i]]]

\* lines 36-41: the loop body for one city
seq_paths_of_city(split, city, files) ==
    LET glob == ListOfSet(files)
        listed == [i \in DOMAIN glob |-> seq_number_of(glob[i])]
        seq_numbers == SortList(ListOfSet({listed[i] : i \in DOMAIN listed}))
    IN  [i \in DOMAIN seq_numbers |-> [split |-> split, city |-> city, seq |-> seq_numbers[i]]]

\* the entries of split_path: nothing of that name, a plain file, or a
\* directory with the frames of some sequences
CityEntries ==
    {[kind |-> "none", files |-> {}], [kind |-> "file", files |-> {}]} \cup
    {[kind |-> "dir",
      files |-> {<<q, f>> \in (0..MaxSeq) \X (1..MaxFrames) : f <= n[q]}] :
        n \in [0..MaxSeq -> 0..MaxFrames]}

InitCity ==
    /\ firstIdle /\ smoothIdle /\ sdIdle /\ spIdle /\ l2Idle /\ siIdle /\ mwIdle /\ wcIdle /\ lwIdle /\ tlIdle /\ rdIdle /\ cxIdle /\ pyIdle /\ tmIdle
    /\ cr_stereo \in BOOLEAN
    /\ cr_split \in {"dir", "file", "none"}
    /\ \E e \in [CityNames -> CityEntries] :
          cr_entries = [c \in CityNames |->
                           [kind |-> e[c].kind,
                            files |-> {PngFile(c, x[1], x[2]) : x \in e[c].files}]]
    /\ cr_pc = "construct"
    /\ cr_self = << >>
    /\ cr_todo = {}
    /\ cr_total = << >>
    /\ cr_raised = "none"
    /\ cr_result = << >>

\* lines 13-22
ConstructCityScapesReader ==
    /\ cr_pc = "construct"
    /\ LET self == DataReaderBase_init(cr_stereo)
       IN  IF self.stereo = FALSE
           THEN /\ cr_self' = self
                /\ cr_pc' = "list_drive_paths"
                /\ UNCHANGED cr_raised
           ELSE /\ cr_raised' = "AssertionError"
                /\ cr_pc' = "error"
                /\ UNCHANGED cr_self
    /\ UNCHANGED <<cr_stereo, cr_split, cr_entries, cr_todo, cr_total, cr_result,
                   firstVars, smoothVars, sdVars, spVars, l2Vars, siVars, mwVars, wcVars, lwVars, tlVars, rdVars, cxVars, pyVars, tmVars>>

\* lines 28-34: the check of split_path, then the directories among its entries
ListCityNames ==
    /\ cr_pc = "list_drive_paths"
    /\ IF cr_split # "dir"
       THEN /\ cr_raised' = "WrongInputException"
            /\ cr_pc' = "error"
            /\ UNCHANGED cr_todo
       ELSE /\ cr_todo' = {c \in CityNames : cr_entries[c].kind = "dir"}
            /\ cr_pc' = "loop"
            /\ UNCHANGED cr_raised
    /\ UNCHANGED <<cr_stereo, cr_split, cr_entries, cr_self, cr_total, cr_result,
                   firstVars, smoothVars, sdVars, spVars, l2Vars, siVars, mwVars, wcVars, lwVars, tlVars, rdVars, cxVars, pyVars, tmVars>>

\* lines 35-42: one iteration, the cities in the order os.listdir gave
ListCitySequences ==
    /\ cr_pc = "loop"
    /\ \E city \in cr_todo :
          /\ cr_total' = cr_total \o seq_paths_of_city("split", city, cr_entries[city].files)
          /\ cr_todo' = cr_todo \ {city}
    /\ UNCHANGED <<cr_stereo, cr_split, cr_entries, cr_self, cr_pc, cr_raised, cr_result,
                   firstVars, smoothVars, sdVars, spVars, l2Vars, siVars, mwVars, wcVars, lwVars, tlVars, rdVars, cxVars, pyVars, tmVars>>

\* lines 45-46
ReturnSequences ==
    /\ cr_pc = "loop"
    /\ cr_todo = {}
    /\ cr_result' = cr_total
    /\ cr_pc' = "done"
    /\ UNCHANGED <<cr_stereo, cr_split, cr_entries, cr_self, cr_todo, cr_total, cr_raised,
                   firstVars, smoothVars, sdVars, spVars, l2Vars, siVars, mwVars, wcVars, lwVars, tlVars, rdVars, cxVars, pyVars, tmVars>>

NextCity == ConstructCityScapesReader \/ ListCityNames \/ ListCitySequences \/ ReturnSequences

SpecCity == InitCity /\ [][NextCity]_vars

\* the sequence numbers that occur in the files of a city directory
SeqsOf(city) == {f[2] : f \in cr_entries[city].files}

\* the sequence numbers returned for a city, in the order returned
Returned(city) ==
    LET own == SelectSeq(cr_result, LAMBDA q : q.city = city)
    IN  [i \in DOMAIN own |-> own[i].seq]

\* C29: list_drive_paths raises WrongInputException and returns nothing when
\* split_path is not an existing directory; otherwise it returns, for each
\* city directory, one path per distinct sequence number, ascending, without
\* duplicates; and no CityScapesReader is constructed with stereo enabled:
\* the construction fails its assertion.
C29_ListDrivePaths ==
    /\ cr_stereo => (cr_self = << >> /\ cr_pc \in {"construct", "error"})
    /\ (cr_stereo /\ cr_pc = "error") => cr_raised = "AssertionError"
    /\ (~cr_stereo /\ cr_split # "dir" /\ cr_pc \notin {"construct", "list_drive_paths"}) =>
          /\ cr_pc = "error"
          /\ cr_raised = "WrongInputException"
          /\ cr_result = << >>
    /\ cr_pc = "done" =>
          /\ cr_split = "dir"
          /\ \A city \in CityNames :
                LET r == Returned(city)
                IN  /\ {r[i] : i \in DOMAIN r} =
                          (IF cr_entries[city].kind = "dir" THEN SeqsOf(city) ELSE {})
                    /\ \A i, j \in DOMAIN r : i < j => r[i] < r[j]
          /\ \A i, j \in DOMAIN cr_result : i # j => cr_result[i] # cr_result[j]

\* two city directories, one with several frames of two sequences
C29_Witness ==
    /\ cr_pc = "done"
    /\ \A city \in CityNames : cr_entries[city].kind = "dir"
    /\ \E city \in CityNames :
          Cardinality(cr_entries[city].files) > Cardinality(SeqsOf(city))
          /\ Cardinality(SeqsOf(city)) = 2
    /\ Len(cr_result) >= 3

\* the split path is a plain file
C29_WitnessNotADirectory ==
    /\ cr_pc = "error" /\ cr_split = "file" /\ cr_raised = "WrongInputException"

\* construction with stereo enabled
C29_WitnessStereo ==
    /\ cr_pc = "error" /\ cr_stereo /\ cr_raised = "AssertionError"

=============================================================================
